---- MODULE Spec2Model ----
(***************************************************************************)
(* A model of verticapy/learn/memmodel.py: the memModel descriptor (its    *)
(* constructor, set_attributes, get_attributes and the dispatching public  *)
(* methods) and the evaluator functions it dispatches to.                  *)
(*                                                                         *)
(* Two kinds of specification live here.  Spec is the life cycle of        *)
(* memModel objects on a small heap: attribute values are abstracted to a  *)
(* Python type tag, a content token for the container and one for the      *)
(* containers nested in it, and the identity of the caller's container     *)
(* they still share (if any).  The Spec<Family> specifications draw the    *)
(* concrete inputs of one evaluator from bounded sets and apply it.        *)
(***************************************************************************)
EXTENDS Integers, Sequences, FiniteSets, TLC

VARIABLES
    descs,      \* the memModel objects: object id -> NoDesc or its three fields
    caller,     \* the caller's own parameter containers, by field name
    steps,      \* operations performed after construction (bounded)
    last,       \* the last operation, its target and its outcome
    pc,         \* position of an evaluator specification: "idle", "in" or "out"
    inp,        \* the inputs an evaluator specification drew
    out         \* what the evaluators returned on inp

vars == <<descs, caller, steps, last, pc, inp, out>>

(***************************************************************************)
(* Bounds of the model.                                                    *)
(***************************************************************************)
MaxSteps == 2
MaxTok == 1

\* The two objects of the life cycle: object 1, of any family, and object 2,
\* an ensemble that may hold object 1 as a member.
DescIds == {1, 2}

\* A content different from t.
Other(t) == (t + 1) % (MaxTok + 1)
Toks == 0..MaxTok

NoDesc == [model_type_ |-> "", attributes_ |-> <<>>, represent_ |-> <<>>]

(***************************************************************************)
(* Families.  AcceptedTypes is the list check_types is given in __init__;  *)
(* "Unknown" stands for any tag outside that list.                         *)
(***************************************************************************)
EnsembleTypes == {"RandomForestRegressor", "XGBoostRegressor",
                  "RandomForestClassifier", "XGBoostClassifier"}
ClassifierEnsembles == {"RandomForestClassifier", "XGBoostClassifier"}
TreeTypes == {"BinaryTreeClassifier", "BinaryTreeRegressor"}
LinearTypes == {"LinearSVR", "LinearSVC", "LogisticRegression", "LinearRegression"}
FlatClusterTypes == {"KMeans", "NearestCentroids"}
TransformTypes == {"OneHotEncoder", "Normalizer", "SVD", "PCA"}

AcceptedTypes ==
    EnsembleTypes \cup TreeTypes \cup LinearTypes \cup FlatClusterTypes
        \cup TransformTypes \cup {"BisectingKMeans", "NaiveBayes"}

ModelTypes == AcceptedTypes \cup {"Unknown"}

(***************************************************************************)
(* Attribute values.  ty is the Python type; c the content of the          *)
(* container itself and nc the content of the containers nested in it;     *)
(* top / nest name the caller's container the value still is (shares), ""  *)
(* when the object is private; items is the element list of a "trees"      *)
(* value: object ids, 0 for an element that is no memModel.                *)
(***************************************************************************)
Val(ty, c, nc, top, nest, items) ==
    [ty |-> ty, c |-> c, nc |-> nc, top |-> top, nest |-> nest, items |-> items]

Scalar(ty, c) == Val(ty, c, 0, "", "", <<>>)
Fresh(ty, c) == Val(ty, c, c, "", "", <<>>)
CallerList(f) == Val("list", 0, 0, f, f, <<>>)
TreeList(items) == Val("list", 0, 0, "", "", items)

TopC(cl, v) == IF v.top = "" THEN v.c ELSE cl[v.top].c
NestC(cl, v) == IF v.nest = "" THEN v.nc ELSE cl[v.nest].nc

\* list.copy(): a new list holding the same elements (nested lists shared);
\* ndarray.copy() copies the data; other types have no copy method.
ListCopy(cl, v) ==
    IF v.ty = "list" THEN [v EXCEPT !.c = TopC(cl, v), !.top = ""]
    ELSE [v EXCEPT !.c = TopC(cl, v), !.top = "", !.nc = NestC(cl, v), !.nest = ""]

\* np.copy(): a new array with the data copied at every depth; a scalar or a
\* string becomes a 0-dimensional array.
NpCopy(cl, v) ==
    [v EXCEPT !.ty = IF v.ty \in {"list", "ndarray"} THEN "ndarray" ELSE "ndarray0",
              !.c = TopC(cl, v), !.top = "", !.nc = NestC(cl, v), !.nest = ""]

\* [c for c in classes]: a new list of the same elements.
ListComp(cl, v) == [v EXCEPT !.ty = "list", !.c = TopC(cl, v), !.top = ""]

HasCopyMethod(v) == v.ty \in {"list", "ndarray", "ndarray0"}
IsIterable(v) == v.ty \in {"list", "ndarray", "str"}

\* check_types((name, value, types)): the value is of one of the types (None
\* passes; an array passes where a list is asked for).
CheckTypes(v, types) ==
    IF v.ty = "none" \/ v.ty \in types \/ (v.ty = "ndarray" /\ "list" \in types)
    THEN "" ELSE "ParameterError"

\* The first error raised by a sequence of steps, "" when none is.
RECURSIVE FirstErr(_)
FirstErr(errs) ==
    IF errs = <<>> THEN ""
    ELSE IF Head(errs) # "" THEN Head(errs) ELSE FirstErr(Tail(errs))

(***************************************************************************)
(* memModel.__init__: validation of the parameter bag, branch by branch.   *)
(* Each branch yields the error it raises ("" when none) and the           *)
(* attributes_ dictionary it has built; nothing is stored before the last  *)
(* three statements of __init__.                                           *)
(***************************************************************************)
Has(a, f) == f \in DOMAIN a

Failed(e) == [err |-> e, attrs |-> <<>>]
Built(e, attrs) == IF e = "" THEN [err |-> "", attrs |-> attrs] ELSE Failed(e)

\* The assertions of the loop over attributes["trees"].
RECURSIVE TreeLoopErr(_, _, _)
TreeLoopErr(ds, mt, items) ==
    IF items = <<>> THEN ""
    ELSE IF Head(items) = 0 THEN "AssertionError"
    ELSE IF mt \in ClassifierEnsembles
            /\ ds[Head(items)].model_type_ # "BinaryTreeClassifier"
         THEN "AssertionError"
    ELSE IF mt \notin ClassifierEnsembles
            /\ ds[Head(items)].model_type_ # "BinaryTreeRegressor"
         THEN "AssertionError"
    ELSE TreeLoopErr(ds, mt, Tail(items))

TreesErr(ds, mt, v) ==
    IF ~IsIterable(v) THEN "TypeError"
    ELSE IF v.ty = "str" THEN "AssertionError"
    ELSE TreeLoopErr(ds, mt, v.items)

InitEnsemble(ds, cl, mt, a) ==
    IF ~Has(a, "trees") THEN Failed("ParameterError")
    ELSE IF TreesErr(ds, mt, a["trees"]) # "" THEN Failed(TreesErr(ds, mt, a["trees"]))
    ELSE IF mt = "XGBoostRegressor"
    THEN IF ~Has(a, "learning_rate") \/ ~Has(a, "mean") THEN Failed("ParameterError")
         ELSE Built(FirstErr(<<CheckTypes(a["mean"], {"num"}),
                               CheckTypes(a["learning_rate"], {"num"})>>),
                    [f \in {"trees", "mean", "learning_rate"} |->
                        IF f = "trees" THEN TreeList(a["trees"].items) ELSE a[f]])
    ELSE IF mt = "XGBoostClassifier"
    THEN IF ~Has(a, "learning_rate") \/ ~Has(a, "logodds") THEN Failed("ParameterError")
         ELSE Built(FirstErr(<<CheckTypes(NpCopy(cl, a["logodds"]), {"list"}),
                               CheckTypes(a["learning_rate"], {"num"})>>),
                    [f \in {"trees", "logodds", "learning_rate"} |->
                        IF f = "trees" THEN TreeList(a["trees"].items)
                        ELSE IF f = "logodds" THEN NpCopy(cl, a[f]) ELSE a[f]])
    ELSE Built("", [f \in {"trees"} |-> TreeList(a["trees"].items)])

TreeLists == {"children_left", "children_right", "feature", "threshold", "value"}

TreeFieldCopy(cl, v) == IF v.ty = "list" THEN ListCopy(cl, v) ELSE NpCopy(cl, v)

InitTree(cl, mt, a) ==
    IF \E f \in TreeLists : ~Has(a, f) THEN Failed("ParameterError")
    ELSE LET copied == [f \in TreeLists |-> TreeFieldCopy(cl, a[f])]
             e1 == FirstErr(<<CheckTypes(copied["children_left"], {"list"}),
                              CheckTypes(copied["children_right"], {"list"}),
                              CheckTypes(copied["feature"], {"list"}),
                              CheckTypes(copied["threshold"], {"list"}),
                              CheckTypes(copied["value"], {"list"})>>)
         IN  IF e1 # "" THEN Failed(e1)
             ELSE IF mt = "BinaryTreeClassifier"
             THEN LET cls == IF Has(a, "classes") THEN NpCopy(cl, a["classes"])
                             ELSE Fresh("list", 0)
                  IN  Built(CheckTypes(cls, {"list"}),
                            [f \in TreeLists \cup {"classes"} |->
                                IF f = "classes" THEN cls ELSE copied[f]])
             ELSE Built("", copied)

InitOneHotEncoder(cl, a) ==
    IF ~Has(a, "categories") THEN Failed("ParameterError")
    ELSE IF ~HasCopyMethod(a["categories"]) THEN Failed("AttributeError")
    ELSE LET cat == ListCopy(cl, a["categories"])
             df == IF Has(a, "drop_first") THEN a["drop_first"] ELSE Scalar("bool", 0)
             cn == IF Has(a, "column_naming") THEN a["column_naming"]
                   ELSE Scalar("str", 0)
         IN  Built(FirstErr(<<CheckTypes(cat, {"list"}), CheckTypes(df, {"bool"}),
                              CheckTypes(cn, {"str"})>>),
                   [f \in {"categories", "drop_first", "column_naming"} |->
                       IF f = "categories" THEN cat
                       ELSE IF f = "drop_first" THEN df ELSE cn])

InitLinear(cl, a) ==
    IF ~Has(a, "coefficients") \/ ~Has(a, "intercept") THEN Failed("ParameterError")
    ELSE LET co == NpCopy(cl, a["coefficients"])
         IN  Built(FirstErr(<<CheckTypes(co, {"list"}),
                              CheckTypes(a["intercept"], {"num"})>>),
                   [f \in {"coefficients", "intercept"} |->
                       IF f = "coefficients" THEN co ELSE a[f]])

DefaultP == 2

InitBisectingKMeans(cl, a) ==
    IF ~Has(a, "clusters") \/ ~Has(a, "left_child") \/ ~Has(a, "right_child")
    THEN Failed("ParameterError")
    ELSE LET p == IF Has(a, "p") THEN a["p"] ELSE Scalar("num", DefaultP)
             cp == [f \in {"clusters", "left_child", "right_child"} |-> NpCopy(cl, a[f])]
         IN  Built(FirstErr(<<CheckTypes(cp["clusters"], {"list"}),
                              CheckTypes(cp["left_child"], {"list"}),
                              CheckTypes(cp["right_child"], {"list"}),
                              CheckTypes(p, {"num"})>>),
                   [f \in {"clusters", "left_child", "right_child", "p"} |->
                       IF f = "p" THEN p ELSE cp[f]])

InitClusters(cl, mt, a) ==
    IF ~Has(a, "clusters") THEN Failed("ParameterError")
    ELSE LET p == IF Has(a, "p") THEN a["p"] ELSE Scalar("num", DefaultP)
             cs == NpCopy(cl, a["clusters"])
             e1 == FirstErr(<<CheckTypes(cs, {"list"}), CheckTypes(p, {"num"})>>)
         IN  IF e1 # "" THEN Failed(e1)
             ELSE IF mt = "NearestCentroids"
             THEN IF Has(a, "classes") /\ ~IsIterable(a["classes"])
                  THEN Failed("TypeError")
                  ELSE LET cls == IF Has(a, "classes") THEN ListComp(cl, a["classes"])
                                  ELSE Scalar("none", 0)
                       IN  Built(CheckTypes(cls, {"list"}),
                                 [f \in {"clusters", "p", "classes"} |->
                                     IF f = "clusters" THEN cs
                                     ELSE IF f = "p" THEN p ELSE cls])
             ELSE Built("", [f \in {"clusters", "p"} |->
                                IF f = "clusters" THEN cs ELSE p])

InitTwoArrays(cl, a, f1, f2) ==
    IF ~Has(a, f1) \/ ~Has(a, f2) THEN Failed("ParameterError")
    ELSE LET cp == [f \in {f1, f2} |-> NpCopy(cl, a[f])]
         IN  Built(FirstErr(<<CheckTypes(cp[f1], {"list"}), CheckTypes(cp[f2], {"list"})>>),
                   cp)

InitNormalizer(cl, a) ==
    IF ~Has(a, "values") \/ ~Has(a, "method") THEN Failed("ParameterError")
    ELSE LET vs == NpCopy(cl, a["values"])
         IN  Built(FirstErr(<<CheckTypes(vs, {"list"}), CheckTypes(a["method"], {"str"})>>),
                   [f \in {"values", "method"} |-> IF f = "values" THEN vs ELSE a[f]])

\* The if / elif chain of __init__; its else branch raises for every tag that
\* has no branch, "NaiveBayes" included.
InitBranch(ds, cl, mt, a) ==
    IF mt \in EnsembleTypes THEN InitEnsemble(ds, cl, mt, a)
    ELSE IF mt \in TreeTypes THEN InitTree(cl, mt, a)
    ELSE IF mt = "OneHotEncoder" THEN InitOneHotEncoder(cl, a)
    ELSE IF mt \in LinearTypes THEN InitLinear(cl, a)
    ELSE IF mt = "BisectingKMeans" THEN InitBisectingKMeans(cl, a)
    ELSE IF mt \in FlatClusterTypes THEN InitClusters(cl, mt, a)
    ELSE IF mt = "PCA" THEN InitTwoArrays(cl, a, "principal_components", "mean")
    ELSE IF mt = "SVD" THEN InitTwoArrays(cl, a, "vectors", "values")
    ELSE IF mt = "Normalizer" THEN InitNormalizer(cl, a)
    ELSE Failed("ParameterError")

\* The summary string: the tag and the formatted fields (the number of trees
\* alone for the trees of an ensemble).
Represent(cl, mt, attrs) ==
    [mt |-> mt,
     shown |-> [f \in DOMAIN attrs |->
                  IF f = "trees" THEN <<Len(attrs[f].items), 0>>
                  ELSE <<TopC(cl, attrs[f]), NestC(cl, attrs[f])>>]]

\* A constructor that stores the attributes as it goes, before validating.
InitCommitEager(old, cl, mt, r) ==
    IF r.err # "" THEN [old EXCEPT !.model_type_ = mt, !.attributes_ = r.attrs]
    ELSE [model_type_ |-> mt, attributes_ |-> r.attrs,
          represent_ |-> Represent(cl, mt, r.attrs)]

\* The object __init__ leaves behind: self is assigned only when no statement
\* before the last three raised.
InitCommit(old, cl, mt, r) ==
    IF r.err # "" THEN old
    ELSE [model_type_ |-> mt, attributes_ |-> r.attrs,
          represent_ |-> Represent(cl, mt, r.attrs)]

(***************************************************************************)
(* The public methods: each is an if / elif chain over model_type_ that    *)
(* calls an evaluator, and whose else branch raises FunctionError with a   *)
(* message made of the method's name and the model type.                   *)
(***************************************************************************)
NoMsg == [method |-> "", model_type |-> ""]
Dispatched(ev) == [err |-> "", ev |-> ev, msg |-> NoMsg]
FunctionError(method, mt) ==
    [err |-> "FunctionError", ev |-> "", msg |-> [method |-> method, model_type |-> mt]]

predict(mt) ==
    IF mt \in LinearTypes THEN Dispatched("predict_from_coef")
    ELSE IF mt \in FlatClusterTypes THEN Dispatched("predict_from_clusters")
    ELSE IF mt = "BisectingKMeans" THEN Dispatched("predict_from_bisecting_kmeans")
    ELSE IF mt \in TreeTypes THEN Dispatched("predict_from_binary_tree")
    ELSE IF mt \in EnsembleTypes THEN Dispatched("ensemble_predict")
    ELSE FunctionError("predict", mt)

predict_sql(mt) ==
    IF mt \in LinearTypes THEN Dispatched("sql_from_coef")
    ELSE IF mt \in FlatClusterTypes THEN Dispatched("sql_from_clusters")
    ELSE IF mt = "BisectingKMeans" THEN Dispatched("sql_from_bisecting_kmeans")
    ELSE IF mt \in TreeTypes THEN Dispatched("sql_from_binary_tree")
    ELSE IF mt \in EnsembleTypes THEN Dispatched("ensemble_predict_sql")
    ELSE FunctionError("predict_sql", mt)

predict_proba(mt) ==
    IF mt \in {"LinearSVC", "LogisticRegression"} THEN Dispatched("predict_from_coef")
    ELSE IF mt \in FlatClusterTypes THEN Dispatched("predict_from_clusters")
    ELSE IF mt = "BinaryTreeClassifier" THEN Dispatched("predict_from_binary_tree")
    ELSE IF mt \in ClassifierEnsembles THEN Dispatched("ensemble_predict_proba")
    ELSE FunctionError("predict_proba", mt)

predict_proba_sql(mt) ==
    IF mt \in {"LinearSVC", "LogisticRegression"} THEN Dispatched("sql_from_coef")
    ELSE IF mt \in FlatClusterTypes THEN Dispatched("sql_from_clusters")
    ELSE IF mt = "BinaryTreeClassifier" THEN Dispatched("sql_from_binary_tree")
    ELSE IF mt \in ClassifierEnsembles THEN Dispatched("ensemble_predict_proba_sql")
    ELSE FunctionError("predict_proba_sql", mt)

transform(mt) ==
    IF mt = "Normalizer" THEN Dispatched("transform_from_normalizer")
    ELSE IF mt = "PCA" THEN Dispatched("transform_from_pca")
    ELSE IF mt = "SVD" THEN Dispatched("transform_from_svd")
    ELSE IF mt = "OneHotEncoder" THEN Dispatched("transform_from_one_hot_encoder")
    ELSE IF mt \in FlatClusterTypes \cup {"BisectingKMeans"}
         THEN Dispatched("predict_from_clusters")
    ELSE FunctionError("transform", mt)

\* transform_sql with the message of transform in its else branch.
transform_sql_transform_message(mt) ==
    IF mt = "Normalizer" THEN Dispatched("sql_from_normalizer")
    ELSE IF mt = "PCA" THEN Dispatched("sql_from_pca")
    ELSE IF mt = "SVD" THEN Dispatched("sql_from_svd")
    ELSE IF mt = "OneHotEncoder" THEN Dispatched("sql_from_one_hot_encoder")
    ELSE IF mt \in FlatClusterTypes \cup {"BisectingKMeans"}
         THEN Dispatched("sql_from_clusters")
    ELSE FunctionError("transform", mt)

transform_sql(mt) ==
    IF mt = "Normalizer" THEN Dispatched("sql_from_normalizer")
    ELSE IF mt = "PCA" THEN Dispatched("sql_from_pca")
    ELSE IF mt = "SVD" THEN Dispatched("sql_from_svd")
    ELSE IF mt = "OneHotEncoder" THEN Dispatched("sql_from_one_hot_encoder")
    ELSE IF mt \in FlatClusterTypes \cup {"BisectingKMeans"}
         THEN Dispatched("sql_from_clusters")
    ELSE FunctionError("transform_sql", mt)

\* rotate without the test of the model type.
rotate_any_type(mt) == Dispatched("matrix_rotation")

rotate(mt) ==
    IF mt = "PCA" THEN Dispatched("matrix_rotation")
    ELSE FunctionError("rotate", mt)

ReadMethods == {"predict", "predict_sql", "predict_proba", "predict_proba_sql",
                "transform", "transform_sql"}

Dispatch(method, mt) ==
    CASE method = "predict" -> predict(mt)
      [] method = "predict_sql" -> predict_sql(mt)
      [] method = "predict_proba" -> predict_proba(mt)
      [] method = "predict_proba_sql" -> predict_proba_sql(mt)
      [] method = "transform" -> transform(mt)
      [] method = "transform_sql" -> transform_sql(mt)
      [] method = "rotate" -> rotate(mt)

(***************************************************************************)
(* What an object's evaluators read: the contents of its own attributes    *)
(* and, for an ensemble, of the objects its "trees" list holds.            *)
(***************************************************************************)
ObserveOwn(ds, cl, d) ==
    [mt |-> ds[d].model_type_,
     vals |-> [f \in DOMAIN ds[d].attributes_ |->
                 IF f = "trees" THEN <<"trees", 0, 0>>
                 ELSE <<ds[d].attributes_[f].ty, TopC(cl, ds[d].attributes_[f]),
                        NestC(cl, ds[d].attributes_[f])>>]]

Members(ds, d) ==
    IF "trees" \in DOMAIN ds[d].attributes_ THEN ds[d].attributes_["trees"].items
    ELSE <<>>

Observe(ds, cl, d) ==
    [own |-> ObserveOwn(ds, cl, d),
     members |-> [i \in 1..Len(Members(ds, d)) |-> ObserveOwn(ds, cl, Members(ds, d)[i])]]

(***************************************************************************)
(* The parameter bags a caller passes.  A bag is built from the caller's   *)
(* own containers (CallerList), so that the caller can mutate them later;  *)
(* it is the family's full bag, the bag without its optional fields, the   *)
(* bag with one field missing, or the bag with one field of a wrong type.  *)
(***************************************************************************)
RequiredFields(mt) ==
    CASE mt \in {"RandomForestRegressor", "RandomForestClassifier"} -> {"trees"}
      [] mt = "XGBoostRegressor" -> {"trees", "learning_rate", "mean"}
      [] mt = "XGBoostClassifier" -> {"trees", "learning_rate", "logodds"}
      [] mt \in TreeTypes -> TreeLists
      [] mt = "OneHotEncoder" -> {"categories"}
      [] mt \in LinearTypes -> {"coefficients", "intercept"}
      [] mt = "BisectingKMeans" -> {"clusters", "left_child", "right_child"}
      [] mt \in FlatClusterTypes -> {"clusters"}
      [] mt = "PCA" -> {"principal_components", "mean"}
      [] mt = "SVD" -> {"vectors", "values"}
      [] mt = "Normalizer" -> {"values", "method"}
      [] OTHER -> {}

OptionalFields(mt) ==
    CASE mt = "BinaryTreeClassifier" -> {"classes"}
      [] mt = "OneHotEncoder" -> {"drop_first", "column_naming"}
      [] mt \in {"BisectingKMeans", "KMeans"} -> {"p"}
      [] mt = "NearestCentroids" -> {"p", "classes"}
      [] OTHER -> {}

FieldsOf(mt) == RequiredFields(mt) \cup OptionalFields(mt)

Kind(mt, f) ==
    CASE f = "trees" -> "trees"
      [] f \in {"intercept", "learning_rate", "p"} -> "num"
      [] f = "mean" /\ mt = "XGBoostRegressor" -> "num"
      [] f = "drop_first" -> "bool"
      [] f \in {"column_naming", "method"} -> "str"
      [] OTHER -> "list"

CallerFields ==
    {f \in UNION {FieldsOf(mt) : mt \in AcceptedTypes} :
        \E mt \in AcceptedTypes : f \in FieldsOf(mt) /\ Kind(mt, f) = "list"}

\* The element lists a caller may pass as "trees": none, one element that is
\* no memModel, or one or two references to an existing object.
ItemChoices(ds) ==
    {<<>>, <<0>>} \cup {<<d>> : d \in {x \in DescIds : ds[x] # NoDesc}}
                  \cup {<<d, d>> : d \in {x \in DescIds : ds[x] # NoDesc}}

GoodVal(mt, f, items) ==
    CASE Kind(mt, f) = "trees" -> TreeList(items)
      [] Kind(mt, f) = "list" -> CallerList(f)
      [] OTHER -> Scalar(Kind(mt, f), 0)

IllVal(mt, f) ==
    IF Kind(mt, f) \in {"num", "bool"} THEN Scalar("str", 0) ELSE Scalar("num", 0)

FullBag(mt, items) == [f \in FieldsOf(mt) |-> GoodVal(mt, f, items)]

Without(a, f) == [g \in DOMAIN a \ {f} |-> a[g]]
With(a, f, v) == [g \in DOMAIN a \cup {f} |-> IF g = f THEN v ELSE a[g]]

Bags(ds, mt) ==
    LET fulls == IF mt \in EnsembleTypes
                 THEN {FullBag(mt, items) : items \in ItemChoices(ds)}
                 ELSE {FullBag(mt, <<>>)}
    IN  fulls
        \cup {[f \in RequiredFields(mt) |-> b[f]] : b \in fulls}
        \cup {Without(FullBag(mt, <<>>), f) : f \in FieldsOf(mt)}
        \cup {With(FullBag(mt, <<>>), f, IllVal(mt, f)) : f \in FieldsOf(mt)}

\* What update is given: nothing, or one field of the family with a new value
\* of the right type or a value of a wrong type.
Partials(ds, mt) ==
    {<<>>}
    \cup {[g \in {f} |-> Fresh(IF Kind(mt, f) = "list" THEN "list" ELSE Kind(mt, f), t)] :
            f \in {x \in FieldsOf(mt) : Kind(mt, x) # "trees"}, t \in 1..MaxTok}
    \cup {[g \in {f} |-> IllVal(mt, f)] : f \in FieldsOf(mt)}
    \cup {[g \in {"trees"} |-> TreeList(items)] :
            items \in IF mt \in EnsembleTypes THEN ItemChoices(ds) ELSE {}}

\* A bag is valid when every required field is present, every field present
\* has its type, and the list of trees is non-empty and holds trees of the
\* required variant.
WellTyped(mt, f, v) ==
    CASE Kind(mt, f) = "trees" -> v.ty = "list"
      [] Kind(mt, f) = "list" -> v.ty \in {"list", "ndarray"}
      [] OTHER -> v.ty = Kind(mt, f)

MemberVariant(mt) ==
    IF mt \in ClassifierEnsembles THEN "BinaryTreeClassifier" ELSE "BinaryTreeRegressor"

ValidBag(ds, mt, a) ==
    /\ mt \in AcceptedTypes \ {"NaiveBayes"}
    /\ RequiredFields(mt) \subseteq DOMAIN a
    /\ \A f \in DOMAIN a \cap FieldsOf(mt) : WellTyped(mt, f, a[f])
    /\ mt \in EnsembleTypes =>
          /\ a["trees"].items # <<>>
          /\ \A i \in 1..Len(a["trees"].items) :
                /\ a["trees"].items[i] # 0
                /\ ds[a["trees"].items[i]].model_type_ = MemberVariant(mt)

(***************************************************************************)
(* The life cycle.  Object 1 is of any family; object 2 is an ensemble,    *)
(* built when object 1 exists, so that it can hold object 1 as a member.   *)
(***************************************************************************)
NoLast ==
    [op |-> "", d |-> 0, mt |-> "", err |-> "", ev |-> "", msg |-> NoMsg,
     valid |-> FALSE, bag |-> <<>>]

Init ==
    /\ descs = [d \in DescIds |-> NoDesc]
    /\ caller = [f \in CallerFields |-> [c |-> 0, nc |-> 0]]
    /\ steps = 0
    /\ last = NoLast
    /\ pc = "idle"
    /\ inp = <<>>
    /\ out = <<>>

EvalIdle == UNCHANGED <<pc, inp, out>>

Constructed(d) == descs[d] # NoDesc
NextFree(d) == ~Constructed(d) /\ \A e \in DescIds : e < d => Constructed(e)
SlotTypes(d) == IF d = 1 THEN ModelTypes ELSE EnsembleTypes

\* memModel(model_type, attributes): a new object when __init__ returns, none
\* when it raises.
Construct(d, mt, a) ==
    /\ NextFree(d)
    /\ steps = 0
    /\ LET r == InitBranch(descs, caller, mt, a)
       IN  /\ descs' = [descs EXCEPT ![d] = InitCommit(NoDesc, caller, mt, r)]
           /\ last' = [NoLast EXCEPT !.op = "construct", !.d = d, !.mt = mt,
                                     !.err = r.err,
                                     !.valid = ValidBag(descs, mt, a)]
    /\ UNCHANGED <<caller, steps>>
    /\ EvalIdle

\* set_attributes(attributes): the stored attributes overlaid with the given
\* ones, then __init__ on self with the same model type.
\* The two loops of set_attributes in the other order: stored values win.
MergedOldWins(old, new) ==
    [f \in DOMAIN old \cup DOMAIN new |-> IF f \in DOMAIN old THEN old[f] ELSE new[f]]

Merged(old, new) ==
    [f \in DOMAIN old \cup DOMAIN new |-> IF f \in DOMAIN new THEN new[f] ELSE old[f]]

SetAttributesResult(ds, cl, d, partial) ==
    InitBranch(ds, cl, ds[d].model_type_, Merged(ds[d].attributes_, partial))

SetAttributes(d, partial) ==
    /\ Constructed(d)
    /\ steps < MaxSteps
    /\ LET r == SetAttributesResult(descs, caller, d, partial)
       IN  /\ descs' = [descs EXCEPT
                          ![d] = InitCommit(descs[d], caller, descs[d].model_type_, r)]
           /\ last' = [NoLast EXCEPT !.op = "set_attributes", !.d = d,
                                     !.mt = descs[d].model_type_, !.err = r.err,
                                     !.bag = partial]
    /\ steps' = steps + 1
    /\ UNCHANGED caller
    /\ EvalIdle

\* predict_proba_sql of a RandomForestClassifier reads each member's "value"
\* and builds the one-hot vectors in a new list (val), from which it builds a
\* new BinaryTreeClassifier: the member keeps its attributes.
\* The one-hot vectors written into the member's own "value" lists.
MemberOneHotInPlace(m) ==
    [m EXCEPT !.attributes_["value"] = [@ EXCEPT !.nc = Other(@), !.nest = ""]]

MemberAfterProbaSql(m) == m

\* The objects after a public method returned: no evaluator assigns to an
\* attribute; the derived trees of predict_proba_sql are locals of the call.
AfterCall(ds, d, method) ==
    IF method = "predict_proba_sql" /\ ds[d].model_type_ = "RandomForestClassifier"
    THEN [x \in DescIds |->
            IF \E i \in 1..Len(Members(ds, d)) : Members(ds, d)[i] = x
            THEN MemberAfterProbaSql(ds[x]) ELSE ds[x]]
    ELSE ds

\* predict, predict_sql, predict_proba, predict_proba_sql, transform and
\* transform_sql.
Call(d, method) ==
    /\ Constructed(d)
    /\ steps < MaxSteps
    /\ LET r == Dispatch(method, descs[d].model_type_)
       IN  last' = [NoLast EXCEPT !.op = method, !.d = d, !.mt = descs[d].model_type_,
                                  !.err = r.err, !.ev = r.ev, !.msg = r.msg]
    /\ descs' = AfterCall(descs, d, method)
    /\ steps' = steps + 1
    /\ UNCHANGED caller
    /\ EvalIdle

\* The matrix the rotation routine returns: some matrix of the same shape.
MatrixRotation == {Fresh("ndarray", t) : t \in 1..MaxTok}

\* rotate(): for PCA, set_attributes with the rotated matrix; FunctionError
\* otherwise.
Rotate(d) ==
    /\ Constructed(d)
    /\ steps < MaxSteps
    /\ LET r == rotate(descs[d].model_type_)
       IN  IF r.err # ""
           THEN /\ last' = [NoLast EXCEPT !.op = "rotate", !.d = d,
                                          !.mt = descs[d].model_type_,
                                          !.err = r.err, !.msg = r.msg]
                /\ UNCHANGED descs
           ELSE \E m \in MatrixRotation :
                  LET partial == [g \in {"principal_components"} |-> m]
                      s == SetAttributesResult(descs, caller, d, partial)
                  IN  /\ descs' = [descs EXCEPT
                                     ![d] = InitCommit(descs[d], caller,
                                                       descs[d].model_type_, s)]
                      /\ last' = [NoLast EXCEPT !.op = "rotate", !.d = d,
                                                !.mt = descs[d].model_type_,
                                                !.err = s.err, !.ev = r.ev,
                                                !.bag = partial]
    /\ steps' = steps + 1
    /\ UNCHANGED caller
    /\ EvalIdle

\* get_attributes() returns the attributes_ dictionary itself; the caller
\* assigns one of its entries a new value of the same type.
GetAttributes(ds, d) == ds[d].attributes_

MutateReturned(d, f) ==
    /\ Constructed(d)
    /\ steps < MaxSteps
    /\ f \in DOMAIN GetAttributes(descs, d)
    /\ f # "trees"
    /\ LET v == GetAttributes(descs, d)[f]
       IN  descs' = [descs EXCEPT ![d].attributes_[f] = Fresh(v.ty, Other(TopC(caller, v)))]
    /\ last' = [NoLast EXCEPT !.op = "mutate_returned", !.d = d,
                              !.mt = descs[d].model_type_]
    /\ steps' = steps + 1
    /\ UNCHANGED caller
    /\ EvalIdle

\* The caller changes, in place, a container it passed to a constructor: the
\* container itself (level "c") or a container nested in it (level "nc").
CallerMutate(f, level) ==
    /\ steps < MaxSteps
    /\ \E d \in DescIds : Constructed(d) /\ f \in DOMAIN descs[d].attributes_
    /\ caller' = [caller EXCEPT ![f][level] = Other(@)]
    /\ last' = [NoLast EXCEPT !.op = "caller_mutate"]
    /\ steps' = steps + 1
    /\ UNCHANGED descs
    /\ EvalIdle

Next ==
    \/ \E d \in {x \in DescIds : NextFree(x) /\ steps = 0} :
          \E mt \in SlotTypes(d) : \E a \in Bags(descs, mt) : Construct(d, mt, a)
    \/ \E d \in {x \in DescIds : Constructed(x) /\ steps < MaxSteps} :
          \E partial \in Partials(descs, descs[d].model_type_) : SetAttributes(d, partial)
    \/ \E d \in DescIds, method \in ReadMethods : Call(d, method)
    \/ \E d \in DescIds : Rotate(d)

Spec == Init /\ [][Next]_vars

\* The same objects with a caller that keeps, and later changes, what it
\* passed in and what get_attributes handed out.
NextOwn ==
    \/ \E d \in {x \in DescIds : NextFree(x) /\ steps = 0} :
          \E mt \in SlotTypes(d) : \E a \in Bags(descs, mt) : Construct(d, mt, a)
    \/ \E d \in {x \in DescIds : Constructed(x) /\ steps < MaxSteps} :
          \E partial \in Partials(descs, descs[d].model_type_) : SetAttributes(d, partial)
    \/ \E d \in DescIds : \E f \in DOMAIN descs[d].attributes_ : MutateReturned(d, f)
    \/ \E f \in CallerFields, level \in {"c", "nc"} : CallerMutate(f, level)

SpecOwn == Init /\ [][NextOwn]_vars

(***************************************************************************)
(* Claims about the life cycle.                                            *)
(***************************************************************************)
Stepped == steps' = steps + 1
ValueOf(cl, v) == <<TopC(cl, v), NestC(cl, v), v.items>>

\* C1: a set_attributes call that raises leaves the object's attributes_,
\* model_type_ and represent_ exactly as they were, whatever updates came
\* before.
C1_FailedUpdateLeavesDescriptor ==
    [][(Stepped /\ last'.op = "set_attributes" /\ last'.err # "")
          => descs'[last'.d] = descs[last'.d]]_vars

\* A failed update of an object that an earlier update had changed.
C1_Witness ==
    /\ last.op = "set_attributes"
    /\ last.err # ""
    /\ steps = 2
    /\ \E f \in DOMAIN descs[last.d].attributes_ :
          f # "trees" /\ descs[last.d].attributes_[f].c = 1

\* C2: after a set_attributes call that returns, every stored field the call
\* does not name keeps its value, every field it names holds the value given,
\* and model_type_ is the same.
C2_UpdateFrame ==
    [][(Stepped /\ last'.op = "set_attributes" /\ last'.err = "")
          => LET d == last'.d
                 old == descs[d].attributes_
                 new == descs'[d].attributes_
                 partial == last'.bag
             IN  /\ descs'[d].model_type_ = descs[d].model_type_
                 /\ \A f \in DOMAIN old \ DOMAIN partial :
                       /\ f \in DOMAIN new
                       /\ ValueOf(caller', new[f]) = ValueOf(caller, old[f])
                 /\ \A f \in DOMAIN partial :
                       /\ f \in DOMAIN new
                       /\ ValueOf(caller', new[f]) = ValueOf(caller, partial[f])]_vars

\* A second update that names a field and succeeds.
C2_Witness ==
    /\ last.op = "set_attributes"
    /\ last.err = ""
    /\ last.bag # <<>>
    /\ steps = 2
    /\ \E f \in DOMAIN descs[last.d].attributes_ \ DOMAIN last.bag :
          f # "trees" /\ descs[last.d].attributes_[f].c = 1

\* C3: the constructor raises ParameterError and leaves no object whenever
\* the bag is not valid for the tag (a required field missing, a field of a
\* wrong type or shape - an empty list of trees, a member of another
\* variant -, or a tag without a branch); otherwise it returns an object of
\* that tag.
C3_ConstructValidates ==
    last.op = "construct" =>
        IF last.valid
        THEN last.err = "" /\ descs[last.d].model_type_ = last.mt
        ELSE last.err = "ParameterError" /\ descs[last.d] = NoDesc

\* The component of the design each family's evaluators belong to, and the
\* evaluators of each component.
ComponentOf(mt) ==
    CASE mt \in LinearTypes -> "linear"
      [] mt \in FlatClusterTypes \cup {"BisectingKMeans"} -> "distance"
      [] mt \in TreeTypes -> "tree"
      [] mt \in EnsembleTypes -> "ensemble"
      [] mt \in TransformTypes -> "transform"
      [] OTHER -> "none"

EvaluatorsOf(component) ==
    CASE component = "linear" -> {"predict_from_coef", "sql_from_coef"}
      [] component = "distance" ->
            {"predict_from_clusters", "sql_from_clusters",
             "predict_from_bisecting_kmeans", "sql_from_bisecting_kmeans"}
      [] component = "tree" -> {"predict_from_binary_tree", "sql_from_binary_tree"}
      [] component = "ensemble" ->
            {"ensemble_predict", "ensemble_predict_sql", "ensemble_predict_proba",
             "ensemble_predict_proba_sql"}
      [] component = "transform" ->
            {"transform_from_normalizer", "transform_from_pca", "transform_from_svd",
             "transform_from_one_hot_encoder", "sql_from_normalizer", "sql_from_pca",
             "sql_from_svd", "sql_from_one_hot_encoder", "matrix_rotation"}
      [] OTHER -> {}

\* C4: a public method called on an object either reaches an evaluator of the
\* object's own family, or raises FunctionError with a message naming that
\* method and that model type and leaves every object unchanged.
C4_DispatchOrUnsupported ==
    [][(Stepped /\ last'.op \in ReadMethods \cup {"rotate"})
          => \/ /\ last'.err = ""
                /\ last'.ev \in EvaluatorsOf(ComponentOf(last'.mt))
             \/ /\ last'.err = "FunctionError"
                /\ last'.msg = [method |-> last'.op, model_type |-> last'.mt]
                /\ descs' = descs]_vars

\* transform_sql refused on a family that has no transform.
C4_Witness ==
    /\ last.op = "transform_sql"
    /\ last.err = "FunctionError"
    /\ last.mt = "LinearRegression"

\* C5: predict, predict_sql, predict_proba, predict_proba_sql, transform and
\* transform_sql leave the attributes of the object, and of every member tree
\* of an ensemble, as they were.
C5_ReadMethodsKeepSnapshot ==
    [][(Stepped /\ last'.op \in ReadMethods)
          => /\ descs' = descs
             /\ \A d \in DescIds :
                   Observe(descs', caller', d) = Observe(descs, caller, d)]_vars

\* predict_proba_sql returned on a random forest that holds a member tree.
C5_Witness ==
    /\ last.op = "predict_proba_sql"
    /\ last.err = ""
    /\ last.mt = "RandomForestClassifier"
    /\ Members(descs, last.d) # <<>>

\* C27: rotate on a PCA gives principal_components the matrix the rotation
\* routine returned and leaves mean, the set of fields and model_type_ as
\* they were, on the object it was called on; on any other model type it
\* raises FunctionError with the method's name and the model type and
\* leaves the object as it was.
C27_RotateFrame ==
    [][(Stepped /\ last'.op = "rotate")
          => LET d == last'.d
                 old == descs[d].attributes_
                 new == descs'[d].attributes_
             IN  IF descs[d].model_type_ = "PCA"
                 THEN /\ last'.err = ""
                      /\ descs'[d].model_type_ = "PCA"
                      /\ DOMAIN new = DOMAIN old
                      /\ ValueOf(caller', new["mean"]) = ValueOf(caller, old["mean"])
                      /\ last'.bag["principal_components"] \in MatrixRotation
                      /\ ValueOf(caller', new["principal_components"])
                            = ValueOf(caller, last'.bag["principal_components"])
                      /\ \A e \in DescIds \ {d} : descs'[e] = descs[e]
                 ELSE /\ last'.err = "FunctionError"
                      /\ last'.msg = [method |-> "rotate",
                                      model_type |-> descs[d].model_type_]
                      /\ descs' = descs]_vars

\* A rotation of a PCA that returned.
C27_Witness ==
    /\ last.op = "rotate"
    /\ last.err = ""
    /\ last.mt = "PCA"
    /\ descs[last.d].attributes_["principal_components"].ty = "ndarray"
    /\ ValueOf(caller, descs[last.d].attributes_["principal_components"])
          = ValueOf(caller, last.bag["principal_components"])

\* C28: every ensemble object holds at least one member, and all its
\* members are trees of the variant of the ensemble: BinaryTreeClassifier
\* for the classifiers, BinaryTreeRegressor for the regressors.
C28_EnsembleMembers ==
    \A d \in DescIds :
        (Constructed(d) /\ descs[d].model_type_ \in EnsembleTypes) =>
            /\ Members(descs, d) # <<>>
            /\ \A i \in 1..Len(Members(descs, d)) :
                  /\ Members(descs, d)[i] \in DescIds
                  /\ descs[Members(descs, d)[i]].model_type_
                        = MemberVariant(descs[d].model_type_)

\* C6: what an object predicts does not change when the caller changes a
\* container it had passed to the constructor (nested lists included), changes
\* the dictionary get_attributes returned, or updates a tree that it had
\* passed as a member of an ensemble.
C6_ExclusiveOwnership ==
    [][/\ (Stepped /\ last'.op \in {"caller_mutate", "mutate_returned"})
            => \A d \in DescIds :
                  Observe(descs', caller', d) = Observe(descs, caller, d)
       /\ (Stepped /\ last'.op = "set_attributes")
            => \A d \in DescIds \ {last'.d} :
                  Observe(descs', caller', d) = Observe(descs, caller, d)]_vars

(***************************************************************************)
(* The evaluator functions on concrete inputs.  Python values are records  *)
(* k (kind: "num", "str", "vec" or "none"), n (the number), s (the string) *)
(* and vec (the list of numbers); Python lists are sequences, read with    *)
(* the 0-based index of the code.                                          *)
(***************************************************************************)
Num(n) == [k |-> "num", n |-> n, s |-> "", vec |-> <<>>]
Str(s) == [k |-> "str", n |-> 0, s |-> s, vec |-> <<>>]
Vec(v) == [k |-> "vec", n |-> 0, s |-> "", vec |-> v]
None == [k |-> "none", n |-> 0, s |-> "", vec |-> <<>>]

At(list, i) == list[i + 1]

Returned(v) == [err |-> "", v |-> v]
Raised(e) == [err |-> e, v |-> None]

\* The decimal text of the small numbers, for str(), float() and format().
Numerals ==
    <<"-9", "-8", "-7", "-6", "-5", "-4", "-3", "-2", "-1",
      "0", "1", "2", "3", "4", "5", "6", "7", "8", "9">>
NumText(n) == IF n \in -9..9 THEN Numerals[n + 10] ELSE "big"
IsNumText(s) == \E n \in -9..9 : Numerals[n + 10] = s
TextNum(s) == CHOOSE n \in -9..9 : Numerals[n + 10] = s

\* np.array(X): a row that holds a string holds strings only.
NpArrayRow(row) ==
    IF \E i \in 1..Len(row) : row[i].k = "str"
    THEN [i \in 1..Len(row) |-> IF row[i].k = "num" THEN Str(NumText(row[i].n)) ELSE row[i]]
    ELSE row

PyStr(x) == IF x.k = "str" THEN x.s ELSE NumText(x.n)
CanFloat(x) == x.k = "num" \/ (x.k = "str" /\ IsNumText(x.s))
PyFloat(x) == IF x.k = "num" THEN x.n ELSE TextNum(x.s)

\* np.argmax: the first index of the largest element; 0 for a scalar.
ArgMax(v) ==
    IF v.k # "vec" \/ v.vec = <<>> THEN 0
    ELSE (CHOOSE i \in 1..Len(v.vec) :
             /\ \A j \in 1..Len(v.vec) : v.vec[j] <= v.vec[i]
             /\ \A j \in 1..(i - 1) : v.vec[j] < v.vec[i]) - 1

(***************************************************************************)
(* predict_from_binary_tree.  t holds children_left, children_right,       *)
(* feature, threshold, value, classes and is_regressor.                    *)
(***************************************************************************)
IsLeaf(t, node) == At(t.children_left, node) = At(t.children_right, node)

\* A leaf that returns the arg-max index whether or not classes are given.
LeafResultNoClasses(t, node, return_proba) ==
    IF ~t.is_regressor /\ ~return_proba THEN Num(ArgMax(At(t.value, node)))
    ELSE At(t.value, node)

LeafResult(t, node, return_proba) ==
    IF ~t.is_regressor /\ ~return_proba
    THEN IF Len(t.classes) > 0 THEN At(t.classes, ArgMax(At(t.value, node)))
         ELSE Num(ArgMax(At(t.value, node)))
    ELSE At(t.value, node)

\* The same with the branch test 'float(X[feature]) <= float(threshold)'.
GoesLeftAtMost(t, node, X) ==
    LET th == At(t.threshold, node)
        x == At(X, At(t.feature, node))
    IN  \/ th.k = "str" /\ PyStr(x) = th.s
        \/ th.k # "str" /\ PyFloat(x) <= th.n

GoesLeft(t, node, X) ==
    LET th == At(t.threshold, node)
        x == At(X, At(t.feature, node))
    IN  \/ th.k = "str" /\ PyStr(x) = th.s
        \/ th.k # "str" /\ PyFloat(x) < th.n

RECURSIVE predict_tree(_, _, _, _)
predict_tree(t, node, X, return_proba) ==
    IF IsLeaf(t, node) THEN Returned(LeafResult(t, node, return_proba))
    ELSE IF At(t.threshold, node).k # "str" /\ ~CanFloat(At(X, At(t.feature, node)))
         THEN Raised("ValueError")
    ELSE IF GoesLeft(t, node, X)
         THEN predict_tree(t, At(t.children_left, node), X, return_proba)
    ELSE predict_tree(t, At(t.children_right, node), X, return_proba)

predict_from_binary_tree(X, t, return_proba) ==
    predict_tree(t, 0, NpArrayRow(X), return_proba)

(***************************************************************************)
(* sql_from_binary_tree.  The text is kept as a tree: a leaf is the object *)
(* the code returns (a value, or a class label, between quotes when it is  *)
(* a string); an inner node is the CASE the format string builds, with the *)
(* column, the operator, the literal the threshold is formatted to (always *)
(* between quotes) and the two branches.                                   *)
(***************************************************************************)
SqlLeaf(v, quoted) == [t |-> "lit", v |-> v, quoted |-> quoted]
SqlCase(col, op, text, quoted, then, else) ==
    [t |-> "case", col |-> col, op |-> op, text |-> text, quoted |-> quoted,
     then |-> then, else |-> else]

Format(v) == IF v.k = "str" THEN v.s ELSE NumText(v.n)

SqlLeafResult(t, node, return_proba, prob_ID) ==
    IF return_proba THEN SqlLeaf(Num(At(At(t.value, node).vec, prob_ID)), FALSE)
    ELSE IF ~t.is_regressor /\ Len(t.classes) > 0
         THEN LET result == At(t.classes, ArgMax(At(t.value, node)))
              IN  SqlLeaf(result, result.k = "str")
    ELSE SqlLeaf(At(t.value, node), FALSE)

RECURSIVE sql_predict_tree(_, _, _, _, _)
sql_predict_tree(t, node, X, return_proba, prob_ID) ==
    IF IsLeaf(t, node) THEN SqlLeafResult(t, node, return_proba, prob_ID)
    ELSE SqlCase(At(X, At(t.feature, node)),
                 IF At(t.threshold, node).k = "str" THEN "=" ELSE "<",
                 Format(At(t.threshold, node)), TRUE,
                 sql_predict_tree(t, At(t.children_left, node), X, return_proba, prob_ID),
                 sql_predict_tree(t, At(t.children_right, node), X, return_proba, prob_ID))

\* max([len(l) if l != None else 0 for l in value])
RECURSIVE MaxLen(_)
MaxLen(value) ==
    IF value = <<>> THEN 0
    ELSE LET h == IF Head(value).k = "vec" THEN Len(Head(value).vec) ELSE 0
             r == MaxLen(Tail(value))
         IN  IF h > r THEN h ELSE r

sql_from_binary_tree(X, t, return_proba) ==
    IF return_proba
    THEN [i \in 1..MaxLen(t.value) |-> sql_predict_tree(t, 0, X, TRUE, i - 1)]
    ELSE sql_predict_tree(t, 0, X, FALSE, 0)

(***************************************************************************)
(* The value a query engine gives an expression on a row: columns holds    *)
(* the column names and row their values.  A literal between quotes        *)
(* compared with a number is read as a number.                             *)
(***************************************************************************)
ColumnValue(columns, row, col) ==
    row[CHOOSE i \in 1..Len(columns) : columns[i] = col]

SqlTest(x, op, text) ==
    IF op = "=" THEN PyStr(x) = text
    ELSE PyFloat(x) < TextNum(text)

RECURSIVE SqlEval(_, _, _)
SqlEval(e, columns, row) ==
    IF e.t = "lit" THEN e.v
    ELSE IF SqlTest(ColumnValue(columns, row, e.col), e.op, e.text)
         THEN SqlEval(e.then, columns, row)
    ELSE SqlEval(e.else, columns, row)

(***************************************************************************)
(* Decision trees on rows of two columns: x0 holds a number, x1 a string.  *)
(***************************************************************************)
MaxNum == 3

Columns == <<"x0", "x1">>
Rows == {<<Num(n), Str(s)>> : n \in 0..MaxNum, s \in {"a", "b"}}

Splits ==
    {[feature |-> 0, threshold |-> Num(n)] : n \in 1..(MaxNum - 1)}
        \cup {[feature |-> 1, threshold |-> Str("a")],
              [feature |-> 0, threshold |-> Str("1")]}

ScoreVecs == {<<2, 1>>, <<1, 2>>, <<1, 1>>}
ClassLists == {<<>>, <<Str("no"), Str("yes")>>, <<Num(7), Num(9)>>}

\* The leaves' values: a number each for a regressor, a score list each
\* for a classifier.
LeafValues(n) ==
    {[is_regressor |-> TRUE, classes |-> <<>>, leaf |-> [j \in 1..n |-> Num(j)]]}
        \cup {[is_regressor |-> FALSE, classes |-> cs,
               leaf |-> [j \in 1..n |-> Vec(f[j])]] :
                  cs \in ClassLists, f \in [1..n -> ScoreVecs]}

NoSplit == [feature |-> 0, threshold |-> None]

Tree(cl, cr, splits, value, lv) ==
    [children_left |-> cl, children_right |-> cr,
     feature |-> [i \in 1..Len(splits) |-> splits[i].feature],
     threshold |-> [i \in 1..Len(splits) |-> splits[i].threshold],
     value |-> value, classes |-> lv.classes, is_regressor |-> lv.is_regressor]

Trees ==
    {Tree(<<-1>>, <<-1>>, <<NoSplit>>, <<lv.leaf[1]>>, lv) : lv \in LeafValues(1)}
        \cup {Tree(<<1, -1, -1>>, <<2, -1, -1>>, <<s, NoSplit, NoSplit>>,
                   <<None, lv.leaf[1], lv.leaf[2]>>, lv) :
                 s \in Splits, lv \in LeafValues(2)}
        \cup {Tree(<<1, -1, 3, -1, -1>>, <<2, -1, 4, -1, -1>>,
                   <<s, NoSplit, r, NoSplit, NoSplit>>,
                   <<None, lv.leaf[1], None, lv.leaf[2], lv.leaf[3]>>, lv) :
                 s \in Splits, r \in Splits, lv \in LeafValues(3)}

InitEval ==
    /\ descs = [d \in DescIds |-> NoDesc]
    /\ caller = [f \in CallerFields |-> [c |-> 0, nc |-> 0]]
    /\ steps = 0
    /\ last = NoLast
    /\ out = <<>>

InitTrees ==
    /\ InitEval
    /\ pc = "tree"
    /\ inp \in {[tree |-> t, X |-> X] : t \in Trees, X \in Rows}

\* memModel.predict and memModel.predict_sql of a tree, on one row and on
\* the column names.
EvalTree ==
    /\ pc = "tree"
    /\ pc' = "tree_out"
    /\ out' = [predict |-> predict_from_binary_tree(inp.X, inp.tree, FALSE),
               predict_sql |-> sql_from_binary_tree(Columns, inp.tree, FALSE),
               predict_proba |->
                   IF inp.tree.is_regressor THEN Raised("FunctionError")
                   ELSE predict_from_binary_tree(inp.X, inp.tree, TRUE)]
    /\ UNCHANGED <<descs, caller, steps, last, inp>>

SpecTrees == InitTrees /\ [][EvalTree]_vars

(***************************************************************************)
(* Claims about the trees.                                                 *)
(***************************************************************************)

\* C7: for every tree (regressor or classifier, with or without classes,
\* numeric or textual thresholds) and every row, the CASE expression of
\* predict_sql, evaluated with the row's values for the columns, gives the
\* value predict gives on that row.
C7_SqlAgreesWithPredict ==
    pc = "tree_out" =>
        /\ out.predict.err = ""
        /\ SqlEval(out.predict_sql, Columns, inp.X) = out.predict.v

SingleLeaf(t) == At(t.children_left, 0) = At(t.children_right, 0)

\* C8 as stated: on a single-leaf tree predict returns value[0] for every
\* row, for the regressor and for the classifier.
C8_SingleLeafReturnsValue ==
    (pc = "tree_out" /\ SingleLeaf(inp.tree)) =>
        out.predict = Returned(At(inp.tree.value, 0))

IsArgMax(i, vec) ==
    /\ i \in 0..(Len(vec) - 1)
    /\ \A j \in 1..Len(vec) : vec[j] <= vec[i + 1]
    /\ \A j \in 1..i : vec[j] < vec[i + 1]

\* C8 amended: on a single-leaf tree predict returns value[0] for the
\* regressor; for the classifier it returns the class at the first largest
\* score of value[0], or that index when no classes are given.
C8_SingleLeafRegressorValueClassifierClass ==
    (pc = "tree_out" /\ SingleLeaf(inp.tree)) =>
        IF inp.tree.is_regressor
        THEN out.predict = Returned(At(inp.tree.value, 0))
        ELSE \E i \in 0..1 :
                /\ IsArgMax(i, At(inp.tree.value, 0).vec)
                /\ out.predict =
                      Returned(IF inp.tree.classes = <<>> THEN Num(i)
                               ELSE At(inp.tree.classes, i))

C8_Witness ==
    /\ pc = "tree_out"
    /\ SingleLeaf(inp.tree)
    /\ ~inp.tree.is_regressor
    /\ inp.tree.classes # <<>>
    /\ At(inp.tree.value, 0) = Vec(<<1, 2>>)
    /\ out.predict = Returned(Str("yes"))

\* The CASE the claim describes for the subtree at node: '=' and a quoted
\* literal for a textual threshold, '<' and an unquoted literal for a
\* numeric one, the left child under THEN and the right child under ELSE.
RECURSIVE CaseAsDescribed(_, _, _)
CaseAsDescribed(t, node, e) ==
    IF IsLeaf(t, node) THEN e.t = "lit"
    ELSE /\ e.t = "case"
         /\ e.col = At(Columns, At(t.feature, node))
         /\ e.text = Format(At(t.threshold, node))
         /\ IF At(t.threshold, node).k = "str"
            THEN e.op = "=" /\ e.quoted
            ELSE e.op = "<" /\ ~e.quoted
         /\ CaseAsDescribed(t, At(t.children_left, node), e.then)
         /\ CaseAsDescribed(t, At(t.children_right, node), e.else)

\* C20: in predict_sql of a tree every internal node emits CASE WHEN
\* column op literal THEN left ELSE right END, with op '=' and a quoted
\* literal for a textual threshold and op '<' and an unquoted literal for a
\* numeric threshold.
C20_CaseShape ==
    pc = "tree_out" => CaseAsDescribed(inp.tree, 0, out.predict_sql)

\* The leaf the rule of the claim reaches from node on a row: left when the
\* threshold is textual and equals the text of the row's value, or is
\* numeric and larger than the row's value as a number; right otherwise.
\* -1 when a value that has to be read as a number is not one.
RECURSIVE LeafReached(_, _, _)
LeafReached(t, node, row) ==
    LET th == At(t.threshold, node)
        x == At(row, At(t.feature, node))
        left == At(t.children_left, node)
        right == At(t.children_right, node)
    IN  IF left = right THEN node
        ELSE IF th.k = "str"
             THEN LeafReached(t, IF PyStr(x) = th.s THEN left ELSE right, row)
        ELSE IF ~CanFloat(x) THEN -1
        ELSE LeafReached(t, IF PyFloat(x) < th.n THEN left ELSE right, row)

\* C21: predict on a tree starts at node 0 and at every internal node goes
\* left exactly when the textual threshold equals str(row[feature]) or the
\* numeric threshold is larger than float(row[feature]), right otherwise
\* (the ValueError of float when the value is no number); at the leaf it
\* returns value[leaf] for a regressor and in probability mode, and for a
\* classifier the class at the first largest score, or that index when no
\* classes are given.
C21_NumericDescent ==
    pc = "tree_out" =>
        LET t == inp.tree
            leaf == LeafReached(t, 0, NpArrayRow(inp.X))
        IN  IF leaf = -1
            THEN out.predict = Raised("ValueError")
            ELSE /\ t.is_regressor => out.predict = Returned(At(t.value, leaf))
                 /\ ~t.is_regressor =>
                       /\ out.predict_proba = Returned(At(t.value, leaf))
                       /\ \E i \in 0..1 :
                             /\ IsArgMax(i, At(t.value, leaf).vec)
                             /\ out.predict =
                                   Returned(IF t.classes = <<>> THEN Num(i)
                                            ELSE At(t.classes, i))

\* A five-node classifier with a textual split at the root and a numeric
\* split below it, on a row that goes right at both: the value equals the
\* numeric threshold.
C21_Witness ==
    /\ pc = "tree_out"
    /\ Len(inp.tree.value) = 5
    /\ At(inp.tree.threshold, 0) = Str("a")
    /\ At(inp.tree.threshold, 2) = Num(1)
    /\ At(inp.tree.feature, 2) = 0
    /\ inp.X = <<Num(1), Str("b")>>
    /\ inp.tree.classes = <<Str("no"), Str("yes")>>
    /\ At(inp.tree.value, 4) = Vec(<<1, 2>>)
    /\ out.predict = Returned(Str("yes"))
    /\ out.predict_proba = Returned(Vec(<<1, 2>>))

(***************************************************************************)
(* predict_from_coef and sql_from_coef.  numpy multiplies the coefficient  *)
(* vector and a row elementwise when their lengths agree, stretches the    *)
(* one of length 1 to the other's length, and raises ValueError otherwise. *)
(***************************************************************************)
RECURSIVE SeqSum(_)
SeqSum(seq) == IF seq = <<>> THEN 0 ELSE Head(seq) + SeqSum(Tail(seq))

Product(a, b) ==
    LET n == IF Len(a) >= Len(b) THEN Len(a) ELSE Len(b)
        Stretched(v, j) == IF Len(v) = 1 THEN v[1] ELSE v[j]
    IN  IF ~(Len(a) = Len(b) \/ Len(a) = 1 \/ Len(b) = 1)
        THEN Raised("ValueError")
        ELSE Returned(Vec([j \in 1..n |-> Stretched(a, j) * Stretched(b, j)]))

IsLogistic(method) == method \in {"LogisticRegression", "LinearSVC"}

\* The logistic output 1 / (1 + exp(-z)) is kept as its argument z, and
\* 1 - p as the argument of p: p > 0.5 exactly when z > 0.
Sigmoid(z) == [k |-> "sigmoid", n |-> z, s |-> "", vec |-> <<>>]
OneMinus(v) == [v EXCEPT !.k = "1-sigmoid"]
Pair(a, b) == [k |-> "pair", a |-> a, b |-> b]

\* The same with the threshold test 'result >= 0.5'.
predict_from_coef_at_least(X, coefficients, intercept, method, return_proba) ==
    LET prod == Product(coefficients, X)
        z == intercept + SeqSum(prod.v.vec)
    IN  IF prod.err # "" THEN [err |-> prod.err, v |-> None]
        ELSE IF ~IsLogistic(method) THEN [err |-> "", v |-> Num(z)]
        ELSE IF return_proba
             THEN [err |-> "", v |-> Pair(OneMinus(Sigmoid(z)), Sigmoid(z))]
        ELSE [err |-> "", v |-> Num(IF z >= 0 THEN 1 ELSE 0)]

predict_from_coef(X, coefficients, intercept, method, return_proba) ==
    LET prod == Product(coefficients, X)
        z == intercept + SeqSum(prod.v.vec)
    IN  IF prod.err # "" THEN [err |-> prod.err, v |-> None]
        ELSE IF ~IsLogistic(method) THEN [err |-> "", v |-> Num(z)]
        ELSE IF return_proba
             THEN [err |-> "", v |-> Pair(OneMinus(Sigmoid(z)), Sigmoid(z))]
        ELSE [err |-> "", v |-> Num(IF z > 0 THEN 1 ELSE 0)]

SqlCoef(intercept, terms, logistic, cast) ==
    [t |-> "coef", intercept |-> intercept, terms |-> terms,
     logistic |-> logistic, cast |-> cast]
SqlRaised(e) == [t |-> "raised", err |-> e]

\* The sum without str(intercept) in front.
sql_from_coef_no_intercept(X, coefficients, intercept, method) ==
    IF Len(X) # Len(coefficients) THEN SqlRaised("AssertionError")
    ELSE SqlCoef(NumText(0),
                 [idx \in 1..Len(coefficients) |->
                     [c |-> NumText(coefficients[idx]), col |-> X[idx]]],
                 IsLogistic(method), FALSE)

\* The sum str(intercept) + c0 * x0 + ..., inside 1 / (1 + EXP(- (...)))
\* for the logistic methods.
sql_from_coef(X, coefficients, intercept, method) ==
    IF Len(X) # Len(coefficients) THEN SqlRaised("AssertionError")
    ELSE SqlCoef(NumText(intercept),
                 [idx \in 1..Len(coefficients) |->
                     [c |-> NumText(coefficients[idx]), col |-> X[idx]]],
                 IsLogistic(method), FALSE)

\* memModel.predict_sql wraps the logistic methods in ((...) > 0.5)::int.
predict_sql_coef(X, coefficients, intercept, method) ==
    LET result == sql_from_coef(X, coefficients, intercept, method)
    IN  IF result.t = "coef" /\ IsLogistic(method)
        THEN [result EXCEPT !.cast = TRUE]
        ELSE result

\* memModel.predict_proba and memModel.predict_proba_sql raise FunctionError
\* for the methods that are not logistic.
predict_proba_coef(X, coefficients, intercept, method) ==
    IF ~IsLogistic(method) THEN Raised("FunctionError")
    ELSE predict_from_coef(X, coefficients, intercept, method, TRUE)

\* ["1 - ({})".format(result), result]
predict_proba_sql_coef(X, coefficients, intercept, method) ==
    LET result == sql_from_coef(X, coefficients, intercept, method)
    IN  IF ~IsLogistic(method) THEN SqlRaised("FunctionError")
        ELSE IF result.t # "coef" THEN result
        ELSE [t |-> "list", items |-> <<[t |-> "1-", e |-> result], result>>]

Widths == {1, 2, 3}
AllColumns == <<"x0", "x1", "x2">>
CoefValues == {-1, 2}
Intercepts == {-1, 0, 1}

InitCoef ==
    /\ InitEval
    /\ pc = "coef"
    /\ inp \in {[method |-> m, coefficients |-> c, intercept |-> b, X |-> X] :
                  m \in LinearTypes,
                  c \in UNION {[1..w -> CoefValues] : w \in Widths},
                  b \in Intercepts,
                  X \in UNION {[1..w -> 0..MaxNum] : w \in Widths}}

EvalCoef ==
    /\ pc = "coef"
    /\ pc' = "coef_out"
    /\ LET names == SubSeq(AllColumns, 1, Len(inp.X))
       IN  out' = [predict |-> predict_from_coef(inp.X, inp.coefficients,
                                   inp.intercept, inp.method, FALSE),
                   predict_sql |-> predict_sql_coef(names, inp.coefficients,
                                       inp.intercept, inp.method),
                   predict_proba |-> predict_proba_coef(inp.X, inp.coefficients,
                                         inp.intercept, inp.method),
                   predict_proba_sql |-> predict_proba_sql_coef(names,
                                             inp.coefficients, inp.intercept,
                                             inp.method)]
    /\ UNCHANGED <<descs, caller, steps, last, inp>>

SpecCoef == InitCoef /\ [][EvalCoef]_vars

\* C9: an operation of the linear family fails when the row's width differs
\* from the number of coefficients, numerically and as an expression; it
\* never returns a value computed from mismatched widths.
C9_WidthMismatchFails ==
    (pc = "coef_out" /\ Len(inp.X) # Len(inp.coefficients)) =>
        /\ out.predict.err # ""
        /\ out.predict_sql.t = "raised"

\* The value of a linear expression on a row: the sum of the intercept
\* and the products, its logistic output, the 0/1 of the '> 0.5' cast, or
\* one minus the value of the inner expression.
CoefSum(e, columns, row) ==
    TextNum(e.intercept)
        + SeqSum([i \in 1..Len(e.terms) |->
                     TextNum(e.terms[i].c) * ColumnValue(columns, row, e.terms[i].col)])

CoefValue(e, columns, row) ==
    IF e.t = "1-" THEN OneMinus(Sigmoid(CoefSum(e.e, columns, row)))
    ELSE IF e.cast THEN Num(IF CoefSum(e, columns, row) > 0 THEN 1 ELSE 0)
    ELSE IF e.logistic THEN Sigmoid(CoefSum(e, columns, row))
    ELSE Num(CoefSum(e, columns, row))

SameWidth == Len(inp.X) = Len(inp.coefficients)
Dot == SeqSum([j \in 1..Len(inp.coefficients) |-> inp.coefficients[j] * inp.X[j]])

\* C12: for LinearRegression and LinearSVR predict returns b + sum_j c_j *
\* x_j on a row, and predict_sql returns the intercept plus one product per
\* coefficient, in feature order, which denotes the same sum on that row.
C12_LinearSumBothModes ==
    (pc = "coef_out" /\ ~IsLogistic(inp.method) /\ SameWidth) =>
        /\ out.predict = Returned(Num(inp.intercept + Dot))
        /\ out.predict_sql.t = "coef"
        /\ out.predict_sql.intercept = NumText(inp.intercept)
        /\ ~out.predict_sql.logistic /\ ~out.predict_sql.cast
        /\ Len(out.predict_sql.terms) = Len(inp.coefficients)
        /\ \A j \in 1..Len(inp.coefficients) :
              out.predict_sql.terms[j]
                  = [c |-> NumText(inp.coefficients[j]), col |-> AllColumns[j]]
        /\ CoefValue(out.predict_sql, AllColumns, inp.X) = out.predict.v

C12_Witness ==
    /\ pc = "coef_out"
    /\ inp.method = "LinearSVR"
    /\ inp.coefficients = <<-1, 2>>
    /\ inp.X = <<1, 3>>
    /\ inp.intercept = 1
    /\ out.predict = Returned(Num(6))
    /\ CoefValue(out.predict_sql, AllColumns, inp.X) = Num(6)

\* C13: for LogisticRegression and LinearSVC predict returns 1 exactly when
\* the logistic output is above 0.5 (intercept + dot > 0) and 0 otherwise,
\* also at 0.5; predict_proba returns [1 - p, p]; predict_sql holds the same
\* strict test and predict_proba_sql the same pair in the same order.
C13_LogisticThresholdAndPair ==
    (pc = "coef_out" /\ IsLogistic(inp.method) /\ SameWidth) =>
        LET z == inp.intercept + Dot
        IN  /\ out.predict = Returned(Num(IF z > 0 THEN 1 ELSE 0))
            /\ out.predict_proba = Returned(Pair(OneMinus(Sigmoid(z)), Sigmoid(z)))
            /\ out.predict_sql.t = "coef"
            /\ out.predict_sql.logistic /\ out.predict_sql.cast
            /\ CoefValue(out.predict_sql, AllColumns, inp.X) = out.predict.v
            /\ out.predict_proba_sql.t = "list"
            /\ Len(out.predict_proba_sql.items) = 2
            /\ CoefValue(out.predict_proba_sql.items[1], AllColumns, inp.X)
                  = out.predict_proba.v.a
            /\ CoefValue(out.predict_proba_sql.items[2], AllColumns, inp.X)
                  = out.predict_proba.v.b

C13_Witness ==
    /\ pc = "coef_out"
    /\ inp.method = "LogisticRegression"
    /\ SameWidth
    /\ Len(inp.X) = 2
    /\ inp.intercept + Dot = 0
    /\ inp.intercept # 0
    /\ out.predict = Returned(Num(0))
    /\ out.predict_proba = Returned(Pair(OneMinus(Sigmoid(0)), Sigmoid(0)))

(***************************************************************************)
(* predict_from_clusters for KMeans.  A distance is the sum of the         *)
(* differences centroid - x raised to p, then raised to 1 / p: the sum     *)
(* itself when p = 1, no number (NaN) when the sum is negative and p > 1,  *)
(* and the p-th root, which grows with the sum, otherwise.                 *)
(***************************************************************************)
RECURSIVE Pow(_, _)
Pow(b, e) == IF e = 0 THEN 1 ELSE b * Pow(b, e - 1)

Abs(n) == IF n < 0 THEN -n ELSE n

Distance(centroid, X, p) ==
    LET total == SeqSum([j \in 1..Len(X) |-> Pow(centroid[j] - X[j], p)])
    IN  [nan |-> p > 1 /\ total < 0, sum |-> total]

\* np.argmin: the first NaN if there is one, else the first smallest.
ArgMin(ds) ==
    IF \E i \in 1..Len(ds) : ds[i].nan
    THEN (CHOOSE i \in 1..Len(ds) :
             ds[i].nan /\ \A j \in 1..(i - 1) : ~ds[j].nan) - 1
    ELSE (CHOOSE i \in 1..Len(ds) :
             /\ \A j \in 1..Len(ds) : ds[i].sum <= ds[j].sum
             /\ \A j \in 1..(i - 1) : ds[j].sum > ds[i].sum) - 1

\* The loop that replaces cluster index idx by classes[idx], one index
\* after the other, on the result of the previous replacement; a string
\* class turns the whole array into strings, which is why the later
\* indices are compared as str(idx).
RECURSIVE Relabel(_, _, _)
Relabel(result, classes, idx) ==
    IF idx >= Len(classes) THEN result
    ELSE LET class_is_str == classes[1].k = "str"
             tmp_idx == IF class_is_str /\ idx > 0 THEN Str(NumText(idx)) ELSE Num(idx)
             c == At(classes, idx)
             where == IF result = tmp_idx THEN c ELSE result
             array == IF c.k = "str" /\ where.k = "num"
                      THEN Str(NumText(where.n)) ELSE where
         IN  Relabel(array, classes, idx + 1)

predict_from_clusters(X, clusters, return_distance_clusters, classes, p) ==
    LET result == [i \in 1..Len(clusters) |-> Distance(clusters[i], X, p)]
    IN  IF return_distance_clusters
        THEN Returned([k |-> "distances", ds |-> result, root |-> p])
        ELSE Returned(Relabel(Num(ArgMin(result)), classes, 0))

(***************************************************************************)
(* sql_from_clusters.  A distance is POWER(POWER(x0 - c0, p) + ..., p); the *)
(* hard assignment is CASE WHEN a column IS NULL THEN NULL, then one WHEN  *)
(* per cluster from the last down to the second, whose condition is the    *)
(* conjunction of 'distance <= distance of j' over the earlier clusters j, *)
(* ELSE the first cluster; a probability is CASE WHEN distance = 0 THEN    *)
(* 1.0 ELSE 1 / (distance) / (1 / (distance 0) + 1 / (distance 1) + ...).  *)
(***************************************************************************)
\* The columns the guard '... IS NULL OR ... IS NULL' tests.
NullGuardFirst(X) == SubSeq(X, 1, 1)

NullGuard(X) == X

sql_from_clusters(X, clusters, return_distance_clusters, return_proba, classes, p) ==
    LET k == Len(clusters)
        clusters_distance ==
            [i \in 1..k |->
                [terms |-> [idx \in 1..Len(X) |->
                               [col |-> X[idx], c |-> NumText(clusters[i][idx]), p |-> p]],
                 outer |-> p]]
        label(i) == IF classes = <<>> THEN SqlLeaf(Num(i), FALSE)
                    ELSE SqlLeaf(At(classes, i), At(classes, i).k = "str")
        sql(i) == [j \in 1..i |->
                      [left |-> clusters_distance[i + 1], right |-> clusters_distance[j]]]
    IN  IF \E i \in 1..k : Len(X) # Len(clusters[i]) THEN SqlRaised("AssertionError")
        ELSE IF return_distance_clusters /\ return_proba
             THEN SqlRaised("AssertionError")
        ELSE IF return_distance_clusters
             THEN [t |-> "list", items |-> clusters_distance]
        ELSE IF return_proba
             THEN [t |-> "list",
                   items |-> [i \in 1..k |->
                                 [t |-> "proba", guard |-> clusters_distance[i],
                                  over |-> clusters_distance[i],
                                  sum_distance |-> clusters_distance]]]
        ELSE [t |-> "nearest", nulls |-> NullGuard(X),
              whens |-> [i \in 1..(k - 1) |->
                            [cond |-> sql(k - i), then |-> label(k - i)]],
              else |-> label(0)]

(***************************************************************************)
(* predict_from_bisecting_kmeans and sql_from_bisecting_kmeans.  A node    *)
(* without a child has None in left_child or right_child, written -1.      *)
(* predict compares the sums of the differences x - centroid raised to p;  *)
(* the SQL compares POWER(POWER(x0 - c0, p) + ..., 1/p), kept with its     *)
(* terms and the root it takes.                                            *)
(***************************************************************************)
predict_from_bisecting_kmeans(X, clusters, left_child, right_child, p) ==
    LET total(node) ==
            SeqSum([j \in 1..Len(X) |-> Pow(X[j] - At(clusters, node)[j], p)])
        RECURSIVE predict_node(_)
        predict_node(node_id) ==
            LET right_node == At(right_child, node_id)
                left_node == At(left_child, node_id)
            IN  IF left_node = -1 /\ right_node = -1 THEN Returned(Num(node_id))
                ELSE IF right_node = -1 \/ left_node = -1 THEN Raised("TypeError")
                ELSE IF total(left_node) < total(right_node)
                     THEN predict_node(left_node)
                ELSE predict_node(right_node)
    IN  predict_node(0)

sql_from_bisecting_kmeans(X, clusters, left_child, right_child, p) ==
    LET clusters_distance ==
            [i \in 1..Len(clusters) |->
                [terms |-> [idx \in 1..Len(X) |->
                               [col |-> X[idx], c |-> NumText(clusters[i][idx]), p |-> p]],
                 root |-> p]]
        RECURSIVE sql_node(_)
        sql_node(node_id) ==
            LET right_node == At(right_child, node_id)
                left_node == At(left_child, node_id)
            IN  IF left_node = -1 /\ right_node = -1 THEN SqlLeaf(Num(node_id), FALSE)
                ELSE IF right_node = -1 \/ left_node = -1 THEN SqlRaised("TypeError")
                ELSE IF sql_node(left_node).t = "raised"
                     THEN sql_node(left_node)
                ELSE IF sql_node(right_node).t = "raised"
                     THEN sql_node(right_node)
                ELSE [t |-> "closer",
                      left |-> At(clusters_distance, left_node),
                      right |-> At(clusters_distance, right_node),
                      then |-> sql_node(left_node),
                      else |-> sql_node(right_node)]
    IN  IF \E i \in 1..Len(clusters) : Len(X) # Len(clusters[i])
        THEN SqlRaised("AssertionError")
        ELSE IF sql_node(0).t = "raised" THEN sql_node(0)
        ELSE [t |-> "guarded", nulls |-> NullGuard(X), else |-> sql_node(0)]

MaxCoord == 2
MaxP == 3
Shapes == {[k |-> 2, d |-> 1], [k |-> 3, d |-> 1], [k |-> 2, d |-> 2]}

\* No classes for KMeans; for NearestCentroids labels that are no cluster
\* index, labels that are, and strings.
ClassChoices(k) ==
    IF k = 2
    THEN {<<>>, <<Num(7), Num(9)>>, <<Num(1), Num(0)>>, <<Str("a"), Str("b")>>}
    ELSE {<<>>, <<Num(7), Num(8), Num(9)>>, <<Num(2), Num(0), Num(1)>>,
          <<Str("a"), Str("b"), Str("c")>>}

InitKMeans ==
    /\ InitEval
    /\ pc = "kmeans"
    /\ inp \in UNION {{[clusters |-> cs, p |-> p, X |-> X, classes |-> cl] :
                          cs \in [1..sh.k -> [1..sh.d -> 0..MaxCoord]],
                          p \in 1..MaxP,
                          X \in [1..sh.d -> 0..MaxCoord],
                          cl \in ClassChoices(sh.k)} : sh \in Shapes}

\* Bisecting trees of one, three and five nodes, and one whose root has a
\* left child only; the root's centroid, which nothing reads, is the
\* origin.
InitBisecting ==
    /\ InitEval
    /\ pc = "bisecting"
    /\ \E sh \in {[left_child |-> <<-1>>, right_child |-> <<-1>>, d |-> 1],
                  [left_child |-> <<-1>>, right_child |-> <<-1>>, d |-> 2],
                  [left_child |-> <<1, -1>>, right_child |-> <<-1, -1>>, d |-> 1],
                  [left_child |-> <<1, -1, -1>>, right_child |-> <<2, -1, -1>>, d |-> 1],
                  [left_child |-> <<1, -1, -1>>, right_child |-> <<2, -1, -1>>, d |-> 2],
                  [left_child |-> <<1, -1, 3, -1, -1>>,
                   right_child |-> <<2, -1, 4, -1, -1>>, d |-> 1]} :
          \E cs \in [1..Len(sh.left_child) -> [1..sh.d -> 0..MaxCoord]] :
             \E p \in 1..MaxP, X \in [1..sh.d -> 0..MaxCoord] :
                /\ cs[1] = [j \in 1..sh.d |-> 0]
                /\ inp = [clusters |-> cs, left_child |-> sh.left_child,
                          right_child |-> sh.right_child, p |-> p, X |-> X]

\* memModel.predict, predict_sql, predict_proba_sql, transform and
\* transform_sql of KMeans (no classes) and NearestCentroids.
EvalKMeans ==
    /\ pc = "kmeans"
    /\ pc' = "kmeans_out"
    /\ LET names == SubSeq(AllColumns, 1, Len(inp.X))
       IN  out' = [predict |-> predict_from_clusters(inp.X, inp.clusters, FALSE,
                                   inp.classes, inp.p),
                   predict_sql |-> sql_from_clusters(names, inp.clusters, FALSE,
                                       FALSE, inp.classes, inp.p),
                   predict_proba_sql |-> sql_from_clusters(names, inp.clusters,
                                             FALSE, TRUE, inp.classes, inp.p),
                   transform |-> predict_from_clusters(inp.X, inp.clusters, TRUE,
                                     <<>>, DefaultP),
                   transform_sql |-> sql_from_clusters(names, inp.clusters, TRUE,
                                         FALSE, <<>>, DefaultP)]
    /\ UNCHANGED <<descs, caller, steps, last, inp>>

\* memModel.predict, predict_sql, transform and transform_sql of
\* BisectingKMeans.
EvalBisecting ==
    /\ pc = "bisecting"
    /\ pc' = "bisecting_out"
    /\ LET names == SubSeq(AllColumns, 1, Len(inp.X))
       IN  out' = [predict |-> predict_from_bisecting_kmeans(inp.X, inp.clusters,
                                   inp.left_child, inp.right_child, inp.p),
                   predict_sql |-> sql_from_bisecting_kmeans(names, inp.clusters,
                                       inp.left_child, inp.right_child, inp.p),
                   transform |-> predict_from_clusters(inp.X, inp.clusters, TRUE,
                                     <<>>, DefaultP),
                   transform_sql |-> sql_from_clusters(names, inp.clusters, TRUE,
                                         FALSE, <<>>, DefaultP)]
    /\ UNCHANGED <<descs, caller, steps, last, inp>>

SpecKMeans ==
    (InitKMeans \/ InitBisecting) /\ [][EvalKMeans \/ EvalBisecting]_vars

PNormSum(centroid, X, p) ==
    SeqSum([j \in 1..Len(X) |-> Pow(Abs(X[j] - centroid[j]), p)])

\* C10: for every exponent p >= 1, odd or even, KMeans predict returns an
\* index i that minimises sum_j |x_j - c_i[j]|^p over the centroids.
C10_NearestUnderPNorm ==
    (pc = "kmeans_out" /\ inp.classes = <<>>) =>
        /\ out.predict.err = ""
        /\ \A i \in 1..Len(inp.clusters) :
              PNormSum(inp.clusters[out.predict.v.n + 1], inp.X, inp.p)
                  <= PNormSum(inp.clusters[i], inp.X, inp.p)

\* The value of a distance expression on a row.
DistanceValue(e, row) ==
    Pow(SeqSum([j \in 1..Len(e.terms) |->
                   Pow(ColumnValue(AllColumns, row, e.terms[j].col)
                           - TextNum(e.terms[j].c), e.terms[j].p)]), e.outer)

\* The cluster the nested CASE selects on a row: the first WHEN whose
\* comparisons all hold, else the ELSE branch.
NearestValue(e, row) ==
    LET holds(w) == \A j \in 1..Len(w.cond) :
                       DistanceValue(w.cond[j].left, row)
                           <= DistanceValue(w.cond[j].right, row)
    IN  IF \E i \in 1..Len(e.whens) : holds(e.whens[i])
        THEN e.whens[CHOOSE i \in 1..Len(e.whens) :
                        /\ holds(e.whens[i])
                        /\ \A j \in 1..(i - 1) : ~holds(e.whens[j])].then.v
        ELSE e.else.v

LowestNearest ==
    CHOOSE i \in 1..Len(inp.clusters) :
        /\ \A j \in 1..Len(inp.clusters) :
              PNormSum(inp.clusters[i], inp.X, inp.p)
                  <= PNormSum(inp.clusters[j], inp.X, inp.p)
        /\ \A j \in 1..(i - 1) :
              PNormSum(inp.clusters[j], inp.X, inp.p)
                  > PNormSum(inp.clusters[i], inp.X, inp.p)

\* C17: the nested CASE of predict_sql selects a cluster of minimum
\* distance on every row, the one of lowest index when several clusters are
\* at the same minimum distance, which is the cluster predict returns.
C17_SqlPicksLowestNearest ==
    (pc = "kmeans_out" /\ inp.classes = <<>>) =>
        /\ NearestValue(out.predict_sql, inp.X) = Num(LowestNearest - 1)
        /\ NearestValue(out.predict_sql, inp.X) = out.predict.v

\* C18: with a class-label array, predict returns classes[i] for the
\* arg-min cluster i, whatever the labels are, also when they are cluster
\* indices themselves.
C18_RelabelByArgMin ==
    (pc = "kmeans_out" /\ inp.classes # <<>>) =>
        out.predict =
            Returned(At(inp.classes,
                        ArgMin([i \in 1..Len(inp.clusters) |->
                                   Distance(inp.clusters[i], inp.X, inp.p)])))

\* An expression of predict_proba_sql divides by a zero distance when its
\* own distance is not zero, so that the ELSE branch is taken, and some
\* distance of the sum is.
DividesByZero(e, row) ==
    /\ DistanceValue(e.guard, row) # 0
    /\ \/ DistanceValue(e.over, row) = 0
       \/ \E j \in 1..Len(e.sum_distance) : DistanceValue(e.sum_distance[j], row) = 0

\* C19: predict_proba_sql returns one expression per cluster, none of them
\* divides by a zero distance on any row, and the expression of a cluster
\* the row coincides with yields 1.0.
C19_ProbaSqlGuarded ==
    pc = "kmeans_out" =>
        /\ out.predict_proba_sql.t = "list"
        /\ Len(out.predict_proba_sql.items) = Len(inp.clusters)
        /\ \A i \in 1..Len(inp.clusters) :
              /\ ~DividesByZero(out.predict_proba_sql.items[i], inp.X)
              /\ inp.clusters[i] = inp.X =>
                    DistanceValue(out.predict_proba_sql.items[i].guard, inp.X) = 0

\* The leaf the descent of the claim reaches from a node: left exactly when
\* the row is strictly nearer to the left child's centroid.
RECURSIVE NearerLeaf(_)
NearerLeaf(node) ==
    LET left == At(inp.left_child, node)
        right == At(inp.right_child, node)
    IN  IF left = -1 /\ right = -1 THEN node
        ELSE IF PNormSum(At(inp.clusters, left), inp.X, inp.p)
                   < PNormSum(At(inp.clusters, right), inp.X, inp.p)
             THEN NearerLeaf(left)
        ELSE NearerLeaf(right)

\* The leaf the nested CASE names on a row.  POWER(sum, 1/p) grows with a
\* sum that is not negative; of a negative sum it is the sum for p = 1 and
\* no number otherwise, and then the comparison does not hold.
RECURSIVE CloserValue(_, _)
CloserValue(e, row) ==
    LET total(d) == SeqSum([j \in 1..Len(d.terms) |->
                       Pow(ColumnValue(AllColumns, row, d.terms[j].col)
                               - TextNum(d.terms[j].c), d.terms[j].p)])
        number(d) == d.root = 1 \/ total(d) >= 0
    IN  IF e.t = "lit" THEN e.v
        ELSE IF number(e.left) /\ number(e.right) /\ total(e.left) < total(e.right)
             THEN CloserValue(e.then, row)
        ELSE CloserValue(e.else, row)

\* C24: BisectingKMeans predict starts at node 0 and moves to the left
\* child exactly when the row's distance to the left child's centroid is
\* strictly smaller than its distance to the right child's, else to the
\* right child; it returns a node id only at a node without children; and
\* the nested CASE of predict_sql names the same leaf on the row.
C24_BisectingDescent ==
    pc = "bisecting_out" =>
        IF \E i \in 1..Len(inp.left_child) :
              (inp.left_child[i] = -1) # (inp.right_child[i] = -1)
        THEN out.predict.err # ""
        ELSE /\ out.predict = Returned(Num(NearerLeaf(0)))
             /\ out.predict_sql.t = "guarded"
             /\ CloserValue(out.predict_sql.else, inp.X) = out.predict.v

C30_TransformUsesStoredP ==
    pc \in {"kmeans_out", "bisecting_out"} =>
        /\ out.transform.err = ""
        /\ out.transform_sql.t = "list"
        /\ \A i \in 1..Len(inp.clusters) :
              LET d == out.transform.v.ds[i]
                  norm == PNormSum(inp.clusters[i], inp.X, inp.p)
              IN  /\ ~d.nan
                  /\ Pow(d.sum, inp.p) = Pow(norm, out.transform.v.root)
                  /\ Pow(DistanceValue(out.transform_sql.items[i], inp.X), inp.p)
                        = norm

(***************************************************************************)
(* transform_from_one_hot_encoder and sql_from_one_hot_encoder.            *)
(***************************************************************************)
\* The indicators of one row, with every category kept.
transform_from_one_hot_encoder_keep_first(X, categories, drop_first) ==
    LET row == NpArrayRow(X)
        RECURSIVE ooe_row(_)
        ooe_row(idx) ==
            IF idx >= Len(row) THEN <<>>
            ELSE [j \in 1..Len(At(categories, idx)) |->
                     IF PyStr(At(row, idx)) = PyStr(At(categories, idx)[j])
                     THEN 1 ELSE 0]
                 \o ooe_row(idx + 1)
    IN  Returned(Vec(ooe_row(0)))

transform_from_one_hot_encoder(X, categories, drop_first) ==
    LET row == NpArrayRow(X)
        RECURSIVE ooe_row(_)
        ooe_row(idx) ==
            IF idx >= Len(row) THEN <<>>
            ELSE LET cats == At(categories, idx)
                     kept == IF drop_first THEN Tail(cats) ELSE cats
                 IN  [j \in 1..Len(kept) |->
                         IF PyStr(At(row, idx)) = PyStr(kept[j]) THEN 1 ELSE 0]
                     \o ooe_row(idx + 1)
    IN  Returned(Vec(ooe_row(0)))

\* One list per feature of (CASE WHEN column = value THEN 1 ELSE 0 END),
\* the value between quotes when it is a string, followed by AS "column_j"
\* or AS "column_value" according to column_naming.
sql_from_one_hot_encoder(X, categories, drop_first, column_naming) ==
    IF Len(X) # Len(categories) THEN SqlRaised("AssertionError")
    ELSE [t |-> "lists",
          items |-> [i \in 1..Len(X) |->
              LET first == IF drop_first THEN 2 ELSE 1
              IN  [n \in 1..(Len(categories[i]) - first + 1) |->
                      LET j == n + first - 1
                          val == categories[i][j]
                      IN  [col |-> X[i], text |-> Format(val),
                           quoted |-> val.k = "str",
                           alias |-> IF column_naming = "indices"
                                     THEN [col |-> X[i], suffix |-> NumText(j - 1)]
                                     ELSE IF column_naming = "values"
                                     THEN [col |-> X[i], suffix |-> Format(val)]
                                     ELSE [col |-> "", suffix |-> ""]]]]]

CategoryLists ==
    {<<cs>> : cs \in {<<Str("a"), Str("b"), Str("c")>>, <<Str("b"), Str("a")>>}}
        \cup {<<cs, cn>> :
                 cs \in {<<Str("a"), Str("b"), Str("c")>>, <<Str("b"), Str("a")>>},
                 cn \in {<<Num(1), Num(2)>>, <<Num(0), Num(2), Num(1)>>}}

InitOneHot ==
    /\ InitEval
    /\ pc = "one_hot"
    /\ inp \in {[categories |-> cats, drop_first |-> df, column_naming |-> cn,
                 X |-> SubSeq(X, 1, Len(cats))] :
                   cats \in CategoryLists, df \in BOOLEAN,
                   cn \in {"indices", "values", "none"},
                   X \in {<<Str(x), Num(n)>> : x \in {"a", "b", "c", "d"},
                                               n \in 0..MaxNum}}

\* memModel.transform and memModel.transform_sql of a OneHotEncoder.
EvalOneHot ==
    /\ pc = "one_hot"
    /\ pc' = "one_hot_out"
    /\ out' = [transform |-> transform_from_one_hot_encoder(inp.X, inp.categories,
                                 inp.drop_first),
               transform_sql |-> sql_from_one_hot_encoder(
                                     SubSeq(Columns, 1, Len(inp.X)), inp.categories,
                                     inp.drop_first, inp.column_naming)]
    /\ UNCHANGED <<descs, caller, steps, last, inp>>

SpecOneHot == InitOneHot /\ [][EvalOneHot]_vars

\* The value of an indicator on a row: 1 when the column equals the value.
IndicatorValue(e, row) ==
    IF PyStr(ColumnValue(Columns, row, e.col)) = e.text THEN 1 ELSE 0

RECURSIVE Flatten(_)
Flatten(lists) == IF lists = <<>> THEN <<>> ELSE Head(lists) \o Flatten(Tail(lists))

\* The indicators the claim describes: per feature, one per category in
\* list order, the first left out under drop_first, 1 iff str(x) equals
\* str(category).
Indicators ==
    Flatten([i \in 1..Len(inp.categories) |->
                LET kept == IF inp.drop_first THEN Tail(inp.categories[i])
                            ELSE inp.categories[i]
                IN  [j \in 1..Len(kept) |->
                        IF PyStr(inp.X[i]) = PyStr(kept[j]) THEN 1 ELSE 0]])

OneHot(v) == Vec([j \in 1..Len(v.vec) |-> IF j = ArgMax(v) + 1 THEN 1 ELSE 0])

predict_proba_ensemble(mt, trees, logodds, learning_rate, X) ==
    LET n == Len(trees)
        m == Len(trees[1].classes)
        proba(i) == predict_from_binary_tree(X, trees[i], TRUE).v
        voted(c) == SeqSum([i \in 1..n |-> OneHot(proba(i)).vec[c]])
        summed(c) == SeqSum([i \in 1..n |-> proba(i).vec[c]])
    IN  IF mt = "RandomForestClassifier"
        THEN Returned([k |-> "votes", n |-> n, s |-> "",
                       vec |-> [c \in 1..m |-> voted(c)]])
        ELSE Returned([k |-> "logistic", n |-> 0, s |-> "",
                       vec |-> [c \in 1..m |->
                                   logodds[c] + learning_rate * summed(c)]])

\* For the regressors np.average of the trees' predictions, kept as their
\* sum (vec) over the number of trees (n), or their sum times learning_rate
\* plus mean; for the classifiers np.argmax of the probability vector,
\* through the first tree's classes.
predict_ensemble(mt, trees, logodds, learning_rate, mean, X) ==
    LET n == Len(trees)
        result == [i \in 1..n |-> predict_from_binary_tree(X, trees[i], FALSE).v.n]
        proba == predict_proba_ensemble(mt, trees, logodds, learning_rate, X).v
    IN  IF mt = "RandomForestRegressor"
        THEN Returned([k |-> "average", n |-> n, s |-> "", vec |-> <<SeqSum(result)>>])
        ELSE IF mt = "XGBoostRegressor"
             THEN Returned(Num(SeqSum(result) * learning_rate + mean))
        ELSE Returned(At(trees[1].classes, ArgMax(Vec(proba.vec))))

\* " + ".join raises TypeError on the numbers a single-leaf tree returns in
\* place of text, and all_probas[i] raises IndexError past the last tree.
predict_proba_sql_ensemble(mt, trees, logodds, learning_rate, X) ==
    LET n == Len(trees)
        m == Len(trees[1].classes)
        derived(i) == [trees[i] EXCEPT !.value =
                          [j \in 1..Len(trees[i].value) |->
                              IF trees[i].value[j].k = "none" THEN None
                              ELSE OneHot(trees[i].value[j])]]
        result(i) == sql_from_binary_tree(X, derived(i), TRUE)
        all_probas(i) == sql_from_binary_tree(X, trees[i], TRUE)
        text(seq) == \A j \in 1..Len(seq) : seq[j].t = "case"
        term(i) == [logodds |-> NumText(logodds[i]),
                    learning_rate |-> NumText(learning_rate),
                    terms |-> all_probas(i)]
    IN  IF mt = "RandomForestClassifier"
        THEN IF \E i \in 1..n : ~text(result(i)) THEN SqlRaised("TypeError")
             ELSE [t |-> "list",
                   items |-> [c \in 1..m |->
                                 [t |-> "average",
                                  terms |-> [i \in 1..n |-> result(i)[c]],
                                  n |-> n]]]
        ELSE IF \E i \in 1..m : i <= n /\ ~text(all_probas(i))
                                /\ \A j \in 1..(i - 1) : j <= n
             THEN SqlRaised("TypeError")
        ELSE IF m > n THEN SqlRaised("IndexError")
        ELSE [t |-> "list",
              items |-> [c \in 1..m |->
                            [t |-> "logistic", over |-> term(c),
                             sum_result |-> [i \in 1..m |-> term(i)]]]]

\* For the regressors "(" + " + ".join(result) + ")" over the trees'
\* expressions, divided by their number or multiplied by learning_rate and
\* offset by mean; " + ".join raises TypeError on the number a single-leaf
\* tree returns.  For the classifiers
\* CASE WHEN proba[1] > 0.5 THEN classes[1] ELSE classes[0] END for two
\* classes; for more, CASE WHEN a column IS NULL THEN NULL, then one WHEN
\* per class from the last down to the second, whose condition is the
\* conjunction of 'proba <= proba of j' over the earlier classes j, ELSE
\* the first class.
predict_sql_ensemble(mt, trees, logodds, learning_rate, mean, X) ==
    LET classes == trees[1].classes
        m == Len(classes)
        result == [i \in 1..Len(trees) |-> sql_from_binary_tree(X, trees[i], FALSE)]
        result_proba == predict_proba_sql_ensemble(mt, trees, logodds, learning_rate, X)
        sql(i) == [j \in 1..i |-> [left |-> result_proba.items[i + 1],
                                   right |-> result_proba.items[j]]]
    IN  IF mt \notin ClassifierEnsembles
        THEN IF \E i \in 1..Len(trees) : result[i].t # "case"
             THEN SqlRaised("TypeError")
             ELSE IF mt = "RandomForestRegressor"
                  THEN [t |-> "average", terms |-> result, n |-> Len(result)]
             ELSE [t |-> "boosted", terms |-> result,
                   learning_rate |-> NumText(learning_rate),
                   mean |-> NumText(mean)]
        ELSE IF result_proba.t # "list" THEN result_proba
        ELSE IF m = 2
             THEN [t |-> "above", test |-> result_proba.items[2],
                   then |-> SqlLeaf(classes[2], FALSE),
                   else |-> SqlLeaf(classes[1], FALSE)]
        ELSE [t |-> "nearest", nulls |-> X,
              whens |-> [i \in 1..(m - 1) |->
                            [cond |-> sql(m - i),
                             then |-> SqlLeaf(At(classes, m - i),
                                              At(classes, m - i).k = "str")]],
              else |-> SqlLeaf(classes[1], classes[1].k = "str")]

\* Member trees over one numeric column: a single leaf, or one split with
\* two leaves.  With two or three classes they are classifiers, without
\* classes regressors.
MemberTrees(cs) ==
    LET scores == IF cs = <<>> THEN {Num(1), Num(2), Num(3)}
                  ELSE IF Len(cs) = 2 THEN {Vec(<<2, 1>>), Vec(<<1, 2>>)}
                  ELSE {Vec(<<2, 1, 0>>), Vec(<<0, 1, 2>>)}
        lv(f) == [is_regressor |-> cs = <<>>, classes |-> cs, leaf |-> f]
    IN  {Tree(<<-1>>, <<-1>>, <<NoSplit>>, <<v>>, lv(<<>>)) : v \in scores}
            \cup {Tree(<<1, -1, -1>>, <<2, -1, -1>>,
                       <<[feature |-> 0, threshold |-> Num(q[1])], NoSplit, NoSplit>>,
                       <<None, q[2], q[3]>>, lv(<<>>)) :
                     q \in {r \in (1..2) \X scores \X scores : r[2] # r[3]}}

InitEnsembles ==
    /\ InitEval
    /\ pc = "ensemble"
    /\ \/ \E cs \in {<<Num(7), Num(9)>>, <<Num(7), Num(8), Num(9)>>} :
             \E n \in 1..3 : \E ts \in [1..n -> MemberTrees(cs)] :
                \E x \in 0..MaxNum : \E mt \in ClassifierEnsembles :
                   inp = [model_type |-> mt, trees |-> ts,
                          logodds |-> [c \in 1..Len(cs) |-> IF c = 1 THEN 1 ELSE 0],
                          learning_rate |-> 2, mean |-> 0, X |-> <<Num(x)>>]
       \/ \E n \in 1..2 : \E ts \in [1..n -> MemberTrees(<<>>)] :
             \E x \in 0..MaxNum, mean \in {-1, 1} :
                \E mt \in EnsembleTypes \ ClassifierEnsembles :
                   inp = [model_type |-> mt, trees |-> ts, logodds |-> <<>>,
                          learning_rate |-> 2, mean |-> mean, X |-> <<Num(x)>>]

\* memModel.predict, predict_proba, predict_sql and predict_proba_sql of an
\* ensemble; the last two are not available for the regressors.
EvalEnsemble ==
    /\ pc = "ensemble"
    /\ pc' = "ensemble_out"
    /\ LET names == SubSeq(Columns, 1, 1)
           classifier == inp.model_type \in ClassifierEnsembles
       IN  out' = [predict |-> predict_ensemble(inp.model_type, inp.trees,
                                   inp.logodds, inp.learning_rate, inp.mean, inp.X),
                   predict_proba |->
                       IF ~classifier THEN Raised("FunctionError")
                       ELSE predict_proba_ensemble(inp.model_type, inp.trees,
                                inp.logodds, inp.learning_rate, inp.X),
                   predict_sql |-> predict_sql_ensemble(inp.model_type, inp.trees,
                                       inp.logodds, inp.learning_rate, inp.mean,
                                       names),
                   predict_proba_sql |->
                       IF ~classifier THEN SqlRaised("FunctionError")
                       ELSE predict_proba_sql_ensemble(inp.model_type, inp.trees,
                                inp.logodds, inp.learning_rate, names)]
    /\ UNCHANGED <<descs, caller, steps, last, inp>>

SpecEnsembles == InitEnsembles /\ [][EvalEnsemble]_vars

\* What orders the values of the probability expressions of one list on a
\* row: the votes of an average (over its n), the argument of a logistic
\* term (over the common sum of the logistic terms).
TermKey(term, row) ==
    TextNum(term.logodds)
        + TextNum(term.learning_rate)
            * SeqSum([j \in 1..Len(term.terms) |-> SqlEval(term.terms[j], Columns, row).n])

ProbaKey(e, row) ==
    IF e.t = "average"
    THEN SeqSum([j \in 1..Len(e.terms) |-> SqlEval(e.terms[j], Columns, row).n])
    ELSE TermKey(e.over, row)

\* The value of the class expression on a row.
ClassValue(e, row) ==
    LET above(p) == IF p.t = "average" THEN 2 * ProbaKey(p, row) > p.n
                    ELSE TermKey(p.over, row) > TermKey(p.sum_result[1], row)
        holds(w) == \A j \in 1..Len(w.cond) :
                       ProbaKey(w.cond[j].left, row) <= ProbaKey(w.cond[j].right, row)
    IN  IF e.t = "above" THEN (IF above(e.test) THEN e.then.v ELSE e.else.v)
        ELSE IF \E i \in 1..Len(e.whens) : holds(e.whens[i])
             THEN e.whens[CHOOSE i \in 1..Len(e.whens) :
                             /\ holds(e.whens[i])
                             /\ \A j \in 1..(i - 1) : ~holds(e.whens[j])].then.v
        ELSE e.else.v

LeafScores(i) == predict_from_binary_tree(inp.X, inp.trees[i], TRUE).v
NumClasses == Len(inp.trees[1].classes)

\* C11: for a RandomForestClassifier with N trees predict_proba for class k
\* is m / N, m being the number of trees whose leaf scores on the row have
\* their arg-max at k; the values sum to 1; and the class-k expression of
\* predict_proba_sql has the same value on the row.
C11_ForestVoteFraction ==
    (pc = "ensemble_out" /\ inp.model_type = "RandomForestClassifier") =>
        LET N == Len(inp.trees)
            votes == [k \in 1..NumClasses |->
                         Cardinality({i \in 1..N : ArgMax(LeafScores(i)) = k - 1})]
        IN  /\ out.predict_proba
                  = Returned([k |-> "votes", n |-> N, s |-> "", vec |-> votes])
            /\ SeqSum(votes) = N
            /\ out.predict_proba_sql.t = "list"
            /\ Len(out.predict_proba_sql.items) = NumClasses
            /\ \A k \in 1..NumClasses :
                  /\ out.predict_proba_sql.items[k].n = N
                  /\ ProbaKey(out.predict_proba_sql.items[k], inp.X) = votes[k]

\* C15: for a classification ensemble with m >= 2 classes predict returns
\* the first tree's class label at the arg-max of the probability vector,
\* and predict_sql selects that same class on the row, for m = 2 and for
\* m > 2.
C15_EnsembleClassBothModes ==
    (pc = "ensemble_out" /\ inp.model_type \in ClassifierEnsembles) =>
        /\ out.predict =
              Returned(At(inp.trees[1].classes, ArgMax(Vec(out.predict_proba.v.vec))))
        /\ out.predict_sql.t \in {"above", "nearest"}
        /\ ClassValue(out.predict_sql, inp.X) = out.predict.v

\* C16: for an XGBoostClassifier with n trees and m classes
\* predict_proba_sql returns m expressions; the one of class c is the
\* logistic term of logodds[c] + learning_rate * S_c over the sum of the m
\* logistic terms, S_c being the sum over the n trees of the tree's class-c
\* score expression; its argument on the row is that of predict_proba.
C16_BoostedProbaSql ==
    (pc = "ensemble_out" /\ inp.model_type = "XGBoostClassifier") =>
        LET n == Len(inp.trees)
            S(c) == [i \in 1..n |->
                        sql_from_binary_tree(SubSeq(Columns, 1, 1), inp.trees[i], TRUE)[c]]
            term(c) == [logodds |-> NumText(inp.logodds[c]),
                        learning_rate |-> NumText(inp.learning_rate),
                        terms |-> S(c)]
        IN  /\ out.predict_proba_sql.t = "list"
            /\ Len(out.predict_proba_sql.items) = NumClasses
            /\ \A c \in 1..NumClasses :
                  /\ out.predict_proba_sql.items[c].over = term(c)
                  /\ out.predict_proba_sql.items[c].sum_result
                        = [i \in 1..NumClasses |-> term(i)]
                  /\ ProbaKey(out.predict_proba_sql.items[c], inp.X)
                        = out.predict_proba.v.vec[c]

\* C23: for a regression ensemble of n trees predict returns the sum of the
\* trees' predictions over n (RandomForestRegressor) or mean plus
\* learning_rate times that sum (XGBoostRegressor), and predict_sql is an
\* expression of the same value: the parenthesised sum of the trees'
\* expressions, divided by n, or multiplied by learning_rate and offset by
\* mean.
C23_RegressionEnsembleBothModes ==
    (pc = "ensemble_out" /\ inp.model_type \notin ClassifierEnsembles) =>
        LET n == Len(inp.trees)
            sum == SeqSum([i \in 1..n |->
                      predict_from_binary_tree(inp.X, inp.trees[i], FALSE).v.n])
            sql == out.predict_sql
            sqlsum == SeqSum([i \in 1..Len(sql.terms) |->
                         SqlEval(sql.terms[i], Columns, inp.X).n])
        IN  IF inp.model_type = "RandomForestRegressor"
            THEN /\ out.predict = Returned([k |-> "average", n |-> n, s |-> "",
                                            vec |-> <<sum>>])
                 /\ sql.t = "average"
                 /\ sql.n = n
                 /\ sqlsum = sum
            ELSE /\ out.predict = Returned(Num(inp.mean + inp.learning_rate * sum))
                 /\ sql.t = "boosted"
                 /\ TextNum(sql.mean) + TextNum(sql.learning_rate) * sqlsum
                       = out.predict.v.n

(***************************************************************************)
(* transform_from_pca and sql_from_pca.  principal_components has one row  *)
(* per input feature and one column per component.                         *)
(***************************************************************************)
transform_from_pca(X, principal_components, mean) ==
    LET result == [j \in 1..Len(X) |-> X[j] - mean[j]]
        n == Len(principal_components[1])
        column(i) == [j \in 1..Len(principal_components) |->
                         principal_components[j][i]]
    IN  IF \E i \in 1..n : Product(result, column(i)).err # ""
        THEN Raised("ValueError")
        ELSE Returned(Vec([i \in 1..n |-> SeqSum(Product(result, column(i)).v.vec)]))

\* One expression "(x0 - mean0) * pc[0][i] + (x1 - mean1) * pc[1][i] + ..."
\* for every i below len(X); pc[i] for a row pc of fewer than i + 1
\* components raises IndexError.
sql_from_pca(X, principal_components, mean) ==
    IF Len(X) # Len(mean) THEN SqlRaised("AssertionError")
    ELSE IF \/ \E i \in 1..Len(X), j \in 1..Len(principal_components) :
                  i > Len(principal_components[j])
            \/ Len(X) > Len(principal_components)
         THEN SqlRaised("IndexError")
    ELSE [t |-> "list",
          items |-> [i \in 1..Len(X) |->
                        [t |-> "pca",
                         terms |-> [j \in 1..Len(X) |->
                                       [col |-> X[j], mean |-> NumText(mean[j]),
                                        pc |-> NumText(principal_components[j][i])]]]]]

InitPCA ==
    /\ InitEval
    /\ pc = "pca"
    /\ \E d \in 1..2, c \in 1..3 :
          \E cs \in [1..d -> [1..c -> {-1, 2}]], mean \in [1..d -> 0..1] :
             \E X \in [1..d -> 0..MaxCoord] :
                inp = [principal_components |-> cs, mean |-> mean, X |-> X]

\* memModel.transform and memModel.transform_sql of a PCA.
EvalPCA ==
    /\ pc = "pca"
    /\ pc' = "pca_out"
    /\ out' = [transform |-> transform_from_pca(inp.X, inp.principal_components,
                                inp.mean),
               transform_sql |-> sql_from_pca(SubSeq(AllColumns, 1, Len(inp.X)),
                                     inp.principal_components, inp.mean)]
    /\ UNCHANGED <<descs, caller, steps, last, inp>>

SpecPCA == InitPCA /\ [][EvalPCA]_vars

\* The value of a component expression on a row.
ComponentValue(e, row) ==
    SeqSum([j \in 1..Len(e.terms) |->
               (ColumnValue(AllColumns, row, e.terms[j].col) - TextNum(e.terms[j].mean))
                   * TextNum(e.terms[j].pc)])

\* C26: for a PCA over d features with c components transform returns c
\* values, the i-th being sum_j (x_j - mean_j) * component[j][i], and
\* transform_sql returns c expressions of these values in this order,
\* whether c equals d or not.
C26_PcaBothModes ==
    pc = "pca_out" =>
        LET c == Len(inp.principal_components[1])
            d == Len(inp.X)
            value(i) == SeqSum([j \in 1..d |->
                           (inp.X[j] - inp.mean[j]) * inp.principal_components[j][i]])
        IN  /\ out.transform = Returned(Vec([i \in 1..c |-> value(i)]))
            /\ out.transform_sql.t = "list"
            /\ Len(out.transform_sql.items) = c
            /\ \A i \in 1..c :
                  ComponentValue(out.transform_sql.items[i], inp.X) = value(i)

(***************************************************************************)
(* A tree built from arrays of any content, and predict on it one call of  *)
(* predict_tree at a time.  The arrays the caller gives are arbitrary: the *)
(* node count n is 0, 1 or 2, every node has the child pair (-1, -1) or    *)
(* any pair of ids among 0..2, and value has its own length.  The          *)
(* recursion is only ended by the interpreter's recursion limit, which     *)
(* MaxDepth stands for.                                                    *)
(***************************************************************************)
MaxDepth == 4

TreeFields == {"children_left", "children_right", "feature", "threshold", "value"}

InitDescent ==
    /\ InitEval
    /\ pc = "new"
    /\ \E n \in 0..2, m \in 0..2, x \in {0, 2} :
         \E kids \in [1..n -> {<<-1, -1>>} \cup ((0..2) \X (0..2))] :
           \E given \in {TreeFields, TreeFields \ {"value"}} :
              inp = [attributes |->
                        [children_left |-> [i \in 1..n |-> kids[i][1]],
                         children_right |-> [i \in 1..n |-> kids[i][2]],
                         feature |-> [i \in 1..n |-> 0],
                         threshold |-> [i \in 1..n |-> Num(1)],
                         value |-> [i \in 1..m |-> Num(i)],
                         classes |-> <<>>, is_regressor |-> TRUE],
                     given |-> given,
                     X |-> <<Num(x)>>]

\* memModel("BinaryTreeRegressor", attributes): the five lists have to be
\* present; they are copied and their types checked, nothing else.
ConstructTree ==
    /\ pc = "new"
    /\ IF inp.given # TreeFields
       THEN /\ pc' = "done"
            /\ out' = [tree |-> <<>>, node |-> 0, path |-> <<>>,
                       result |-> Raised("ParameterError")]
       ELSE /\ pc' = "built"
            /\ out' = [tree |-> inp.attributes, node |-> 0, path |-> <<>>,
                       result |-> Returned(None)]
    /\ UNCHANGED <<descs, caller, steps, last, inp>>

\* One call predict_tree(..., node_id, X) of predict on the tree built:
\* path holds the nodes the calls were made on.
Descend ==
    /\ pc = "built"
    /\ LET t == out.tree
           node == out.node
           Finish(r) ==
               /\ pc' = "done"
               /\ out' = [out EXCEPT !.result = r]
           Visit(r) ==
               /\ pc' = "done"
               /\ out' = [out EXCEPT !.result = r, !.path = Append(@, node)]
       IN  IF Len(out.path) >= MaxDepth THEN Finish(Raised("RecursionError"))
           ELSE IF node >= Len(t.children_left) THEN Visit(Raised("IndexError"))
           ELSE IF IsLeaf(t, node)
                THEN IF node >= Len(t.value) THEN Visit(Raised("IndexError"))
                     ELSE Visit(Returned(LeafResult(t, node, FALSE)))
           ELSE /\ pc' = pc
                /\ out' = [out EXCEPT
                             !.path = Append(@, node),
                             !.node = IF GoesLeft(t, node, inp.X)
                                      THEN At(t.children_left, node)
                                      ELSE At(t.children_right, node)]
    /\ UNCHANGED <<descs, caller, steps, last, inp>>

SpecDescent == InitDescent /\ [][ConstructTree \/ Descend]_vars

\* C22: predict on a tree ends for every content of the child arrays, and
\* no node is visited twice during the evaluation of a row: cyclic links
\* are stopped by a guard before a node is entered again.
C22_NoNodeVisitedTwice ==
    pc \in {"built", "done"} =>
        \A i, j \in 1..Len(out.path) : i # j => out.path[i] # out.path[j]

\* C29: a tree the constructor accepts has its five arrays of one length,
\* at least one node, and every child id of an internal node is a node
\* index.
C29_AcceptedTreesAreFlatTrees ==
    pc = "built" =>
        LET t == out.tree
            n == Len(t.children_left)
        IN  /\ n >= 1
            /\ \A f \in TreeFields : Len(t[f]) = n
            /\ \A i \in 0..(n - 1) :
                  ~IsLeaf(t, i) =>
                      /\ At(t.children_left, i) \in 0..(n - 1)
                      /\ At(t.children_right, i) \in 0..(n - 1)

====
